---------------------------- MODULE Spec2Model ----------------------------
(***************************************************************************)
(* wifi-nina: the framed SPI command protocol of the WifiNina coprocessor  *)
(* driver.  The model follows src/transport/spi.rs (SpiTransport and       *)
(* BufTransporter), src/handle.rs (WifiNinaHandle, the mutex in front of   *)
(* the transport), and the parameter codec of src/param.rs, src/params.rs  *)
(* and src/encoding.rs.                                                    *)
(*                                                                         *)
(* Tasks run on a single-threaded cooperative executor: a task that is     *)
(* being polled runs until its next suspension point (an await that is     *)
(* pending), and only then can another task, or the drop of a pending      *)
(* future, act.  Panics are modelled as unwinding: the locals of the       *)
(* panicking future are dropped as on an error return.                     *)
(***************************************************************************)
EXTENDS Integers, Sequences, FiniteSets, TLC

(***************************************************************************)
(* Bounds of the model.                                                    *)
(***************************************************************************)
\* calls each task makes
MaxCalls == 1
\* longest payload handed to send_data
MaxData == 4
\* longest caller buffer handed to get_data_buf
MaxBuf == 2

Tasks == {"t1", "t2"}
NoTask == "none"

(***************************************************************************)
(* Protocol constants, src/transport/spi.rs:102-105.                       *)
(***************************************************************************)
START_CMD == 224
END_CMD == 238
ERR_CMD == 239
REPLY_FLAG == 128
\* the byte flush() pads with, spi.rs:368
PAD_BYTE == 255
\* const CAPACITY of the two transporters of handle_cmd, spi.rs:161 and 177
SEND_CAPACITY == 8
RECV_CAPACITY == 1
\* the padding modulus of flush(), spi.rs:367
PAD_MULTIPLE == 4
\* the limits of the two length prefixes, encoding.rs:30 and 35
U16_MAX == 65535
U8_MAX == 255
\* what a failed unwrap()/assert leaves in a byte stream: a panic
PANIC == -1

(***************************************************************************)
(* Opcodes, src/command.rs.                                                *)
(***************************************************************************)
GetConnStatusCmd == 32
StartClientTcpCmd == 45
GetClientStateTcpCmd == 47
StopClientTcpCmd == 46
DataSentTcpCmd == 42
ReqHostByNameCmd == 52
GetFwVersionCmd == 55
GetSocketCmd == 63
SendDataTcpCmd == 68
GetDatabufTcpCmd == 69
SetPinMode == 80
SetDigitalWrite == 81
SetAnalogWrite == 82

\* u8::from(command) & !REPLY_FLAG, spi.rs:163
ClearReplyFlag(b) == b - REPLY_FLAG * ((b \div REPLY_FLAG) % 2)
\* u8::from(command) | REPLY_FLAG, spi.rs:191
SetReplyFlag(b) == b + REPLY_FLAG * (1 - ((b \div REPLY_FLAG) % 2))

(***************************************************************************)
(* Parameters.  A parameter is a record: kind, the scalar value n, the     *)
(* bytes b (of a byte run), and cap (the capacity of a growable vector).   *)
(***************************************************************************)
U8(v) == [kind |-> "u8", n |-> v, b |-> <<>>, cap |-> 0]
ScalarLE16(v) == [kind |-> "u16le", n |-> v, b |-> <<>>, cap |-> 0]
ScalarBE16(v) == [kind |-> "u16be", n |-> v, b |-> <<>>, cap |-> 0]
ScalarBE32(v) == [kind |-> "u32be", n |-> v, b |-> <<>>, cap |-> 0]
ScalarLE32(v) == [kind |-> "u32le", n |-> v, b |-> <<>>, cap |-> 0]
\* &[u8] / &mut [u8]: a run of fixed length
Slice(bs) == [kind |-> "slice", n |-> 0, b |-> bs, cap |-> Len(bs)]
\* a growable byte vector of capacity c
ByteVec(bs, c) == [kind |-> "vec", n |-> 0, b |-> bs, cap |-> c]
\* NullTerminated around a growable byte vector
NullTerminatedVec(bs, c) == [kind |-> "nullterm", n |-> 0, b |-> bs, cap |-> c]

\* byteorder::BigEndian / LittleEndian write of a w-byte scalar
RECURSIVE BEBytes(_, _)
BEBytes(v, w) == IF w = 0 THEN <<>> ELSE BEBytes(v \div 256, w - 1) \o <<v % 256>>
RECURSIVE LEBytes(_, _)
LEBytes(v, w) == IF w = 0 THEN <<>> ELSE <<v % 256>> \o LEBytes(v \div 256, w - 1)
RECURSIVE BEValue(_)
BEValue(bs) == IF bs = <<>> THEN 0 ELSE 256 * BEValue(SubSeq(bs, 1, Len(bs) - 1)) + bs[Len(bs)]
RECURSIVE LEValue(_)
LEValue(bs) == IF bs = <<>> THEN 0 ELSE bs[1] + 256 * LEValue(Tail(bs))

\* the width of a scalar kind
ScalarWidth(k) ==
  CASE k = "u8" -> 1 [] k \in {"u16le", "u16be"} -> 2 [] k \in {"u32le", "u32be"} -> 4
    [] OTHER -> 0

\* SerializeParam::len
ParamLen(p) ==
  CASE p.kind = "u8" -> 1
    [] p.kind \in {"u16le", "u16be"} -> 2
    [] p.kind \in {"u32le", "u32be"} -> 4
    [] p.kind \in {"slice", "vec"} -> Len(p.b)
    [] p.kind = "nullterm" -> Len(p.b) + 1

\* SerializeParam::serialize
SerializeParam(p) ==
  CASE p.kind = "u8" -> <<p.n>>
    [] p.kind = "u16le" -> LEBytes(p.n, 2)
    [] p.kind = "u16be" -> BEBytes(p.n, 2)
    [] p.kind = "u32be" -> BEBytes(p.n, 4)
    [] p.kind = "u32le" -> LEBytes(p.n, 4)
    [] p.kind \in {"slice", "vec"} -> p.b
    [] p.kind = "nullterm" -> p.b \o <<0>>

\* encoding::serialize_len: the unwrap panics when the length does not fit
serialize_len(long, len) ==
  IF long
    THEN IF len <= U16_MAX THEN BEBytes(len, 2) ELSE <<PANIC>>
    ELSE IF len <= U8_MAX THEN <<len>> ELSE <<PANIC>>

\* the width of a length prefix, param.rs:14
PrefixWidth(long) == IF long THEN 2 ELSE 1

\* SerializeParam::len_length_delimited
len_length_delimited(p, long) == ParamLen(p) + PrefixWidth(long)

\* SerializeParam::serialize_length_delimited
serialize_length_delimited(p, long) ==
  serialize_len(long, ParamLen(p)) \o SerializeParam(p)

\* SerializeParams::serialize of a tuple (and of ()): count byte, then slots
RECURSIVE SerializeSlots(_, _)
SerializeSlots(ps, long) ==
  IF ps = <<>> THEN <<>>
  ELSE serialize_length_delimited(Head(ps), long) \o SerializeSlots(Tail(ps), long)

SerializeParamsNoCount(ps, long) == SerializeSlots(ps, long)
SerializeParams(ps, long) == <<Len(ps)>> \o SerializeSlots(ps, long)

(***************************************************************************)
(* The command methods of WifiNinaHandle, src/handle.rs.  A call is what   *)
(* reaches Transport::handle_cmd: opcode, send parameters, the receive     *)
(* parameters as initialised by the method, and the two length modes.      *)
(***************************************************************************)
handle_cmd(name, c, sp, rp) ==
  [name |-> name, cmd |-> c, send |-> sp, recv |-> rp,
   long_send |-> FALSE, long_recv |-> FALSE]

handle_long_send_cmd(name, c, sp, rp) ==
  [name |-> name, cmd |-> c, send |-> sp, recv |-> rp,
   long_send |-> TRUE, long_recv |-> FALSE]

handle_long_send_long_recv_cmd(name, c, sp, rp) ==
  [name |-> name, cmd |-> c, send |-> sp, recv |-> rp,
   long_send |-> TRUE, long_recv |-> TRUE]

get_connection_state_dummy ==
  handle_cmd("get_connection_state", GetConnStatusCmd, <<U8(PAD_BYTE)>>, <<U8(0)>>)
get_connection_state ==
  handle_cmd("get_connection_state", GetConnStatusCmd, <<>>, <<U8(0)>>)

get_firmware_version_unterminated ==
  handle_cmd("get_firmware_version", GetFwVersionCmd, <<U8(0)>>, <<ByteVec(<<>>, 16)>>)
get_firmware_version ==
  handle_cmd("get_firmware_version", GetFwVersionCmd, <<U8(0)>>,
             <<NullTerminatedVec(<<>>, 16)>>)

request_host_by_name(hostname) ==
  handle_cmd("request_host_by_name", ReqHostByNameCmd,
             <<NullTerminatedVec(hostname, Len(hostname))>>, <<U8(0)>>)

\* addr is an IPv4 address and port; protocol_mode is ProtocolMode as u8
start_client_by_addr(addr, socket, protocol_mode) ==
  handle_cmd("start_client_by_addr", StartClientTcpCmd,
             <<ScalarBE32(addr.ip), ScalarBE16(addr.port), U8(socket), U8(protocol_mode)>>,
             <<U8(0)>>)

get_client_state(socket) ==
  handle_cmd("get_client_state", GetClientStateTcpCmd, <<U8(socket)>>, <<U8(0)>>)

check_data_sent(socket) ==
  handle_cmd("check_data_sent", DataSentTcpCmd, <<U8(socket)>>, <<U8(0)>>)

get_socket == handle_cmd("get_socket", GetSocketCmd, <<>>, <<U8(0)>>)

send_data_short(socket, data) ==
  handle_cmd("send_data", SendDataTcpCmd,
             <<U8(socket), Slice(data)>>, <<ScalarLE16(0)>>)

send_data(socket, data) ==
  handle_long_send_cmd("send_data", SendDataTcpCmd,
                       <<U8(socket), Slice(data)>>, <<ScalarLE16(0)>>)

get_data_buf(socket, buf) ==
  handle_long_send_long_recv_cmd("get_data_buf", GetDatabufTcpCmd,
                                 <<U8(socket), ScalarLE16(Len(buf))>>, <<Slice(buf)>>)

\* what get_data_buf returns on success: recv_params.0.len() (handle.rs:608),
\* which Socket::read returns to its caller (lib.rs:241)
get_data_buf_ret(rp) == Len(rp[1].b)

pin_mode(pin, mode) ==
  handle_cmd("pin_mode", SetPinMode, <<U8(pin), U8(mode)>>, <<U8(0)>>)

digital_write(pin, value) ==
  handle_cmd("digital_write", SetDigitalWrite, <<U8(pin), U8(value)>>, <<U8(0)>>)

analog_write(pin, value) ==
  handle_cmd("analog_write", SetAnalogWrite, <<U8(pin), U8(value)>>, <<U8(0)>>)


(***************************************************************************)
(* Calls the tasks draw from.  The payload of send_data alternates the pad *)
(* byte and the end byte, the two values a frame check could mistake.      *)
(***************************************************************************)
Payload(n) == [i \in 1..n |-> IF i % 2 = 1 THEN PAD_BYTE ELSE END_CMD]
Zeros(n) == [i \in 1..n |-> 0]
\* a hostname of n letters; with n = 255 its slot length does not fit a byte
Hostname(n) == [i \in 1..n |-> 97]

Calls ==
  {get_connection_state, get_firmware_version, check_data_sent(0), get_socket,
   pin_mode(25, 1), digital_write(25, 1), analog_write(25, 255)}
  \cup {send_data(0, Payload(n)) : n \in 0..MaxData}
  \cup {get_data_buf(0, Zeros(n)) : n \in 0..MaxBuf}
  \cup {request_host_by_name(Hostname(n)) : n \in {1, U8_MAX - 1, U8_MAX, U8_MAX + 1}}

\* the calls of Socket::flush (lib.rs:284-292)
FlushCalls == {send_data(0, Payload(1)), check_data_sent(0)}

\* what each task calls: t1 any command method, t2 a socket that flushes
Menu(t) == IF t = "t1" THEN Calls ELSE FlushCalls

NoCall == handle_cmd("none", 0, <<>>, <<>>)

(***************************************************************************)
(* Results and errors (SpiError, spi.rs:59-80).                            *)
(***************************************************************************)
Err(e, x, pos) == [e |-> e, x |-> x, pos |-> pos]
NoErr == Err("none", 0, 0)
ErrorResponse == Err("ErrorResponse", 0, 0)
UnexpectedReplyByte(b, pos) == Err("UnexpectedReplyByte", b, pos)

\* kind: none, Ok, Err, Panic or Cancelled; tx: the transaction it ended in;
\* at: the program position it ended at
Result(kind, err, tx, at) == [kind |-> kind, err |-> err, tx |-> tx, at |-> at]
NoResult == Result("none", NoErr, "none", "none")

(***************************************************************************)
(* The reply parser: the receive closure of handle_cmd (spi.rs:177-205)    *)
(* with ParseParams/ParseParam (params.rs:70-87, param.rs:98-227) and      *)
(* encoding::parse_len, as a machine fed one byte per Transporter::read.   *)
(* stage: first0, first1, count, len, payload, nul, end.                   *)
(***************************************************************************)
Parser(stage, slot, need, acc) == [stage |-> stage, slot |-> slot, need |-> need, acc |-> acc]
ParserInit == Parser("first0", 0, 1, <<>>)

\* a step of the parser: st is more, ok, err or panic
Step(st, pr, rp, err) == [st |-> st, pr |-> pr, recv |-> rp, err |-> err]

\* the checks on the two header bytes, spi.rs:183-193
CheckHeaderErrAfterStart(first, cmd) ==
  IF first[1] # START_CMD THEN UnexpectedReplyByte(first[1], 0)
  ELSE IF first[1] = ERR_CMD THEN ErrorResponse
  ELSE IF first[2] # SetReplyFlag(cmd) THEN UnexpectedReplyByte(first[2], 1)
  ELSE NoErr

CheckHeaderNoEcho(first, cmd) ==
  IF first[1] = ERR_CMD THEN ErrorResponse
  ELSE IF first[1] # START_CMD THEN UnexpectedReplyByte(first[1], 0)
  ELSE NoErr

CheckHeader(first, cmd) ==
  IF first[1] = ERR_CMD THEN ErrorResponse
  ELSE IF first[1] # START_CMD THEN UnexpectedReplyByte(first[1], 0)
  ELSE IF first[2] # SetReplyFlag(cmd) THEN UnexpectedReplyByte(first[2], 1)
  ELSE NoErr

\* the parser before the slot after `slot`, or before the end byte
AfterParam(rp, slot, long) ==
  IF slot < Len(rp) THEN Parser("len", slot + 1, PrefixWidth(long), <<>>)
  ELSE Parser("end", slot, 1, <<>>)

\* a byte vector grown with zeros to hold len bytes, param.rs:196-199
Extended(bs, len) == IF Len(bs) < len THEN bs \o Zeros(len - Len(bs)) ELSE bs

\* ParseParam::parse called with the received length, before any payload byte
BeginParam(rp, slot, len, long) ==
  LET p == rp[slot] IN
  CASE p.kind \in {"u8", "u16le", "u16be", "u32le", "u32be"} ->
         IF len # ScalarWidth(p.kind) THEN Step("panic", ParserInit, rp, NoErr)
         ELSE Step("more", Parser("payload", slot, len, <<>>), rp, NoErr)
    [] p.kind = "slice" ->
         IF len > Len(p.b) THEN Step("panic", ParserInit, rp, NoErr)
         ELSE IF len = 0 THEN Step("more", AfterParam(rp, slot, long), rp, NoErr)
         ELSE Step("more", Parser("payload", slot, len, <<>>), rp, NoErr)
    [] p.kind = "vec" ->
         IF len > p.cap THEN Step("panic", ParserInit, rp, NoErr)
         ELSE LET rp2 == [rp EXCEPT ![slot].b = Extended(@, len)] IN
              IF len = 0 THEN Step("more", AfterParam(rp, slot, long), rp2, NoErr)
              ELSE Step("more", Parser("payload", slot, len, <<>>), rp2, NoErr)
    [] p.kind = "nullterm" ->
         IF len = 0 \/ len - 1 > p.cap THEN Step("panic", ParserInit, rp, NoErr)
         ELSE LET rp2 == [rp EXCEPT ![slot].b = Extended(@, len - 1)] IN
              IF len = 1 THEN Step("more", Parser("nul", slot, 1, <<>>), rp2, NoErr)
              ELSE Step("more", Parser("payload", slot, len - 1, <<>>), rp2, NoErr)

\* one payload byte of slot pr.slot; pr.acc holds the bytes read before it
PayloadByte(pr, rp, long, byte) ==
  LET p == rp[pr.slot]
      got == Append(pr.acc, byte)
      last == pr.need = 1
      stored ==
        CASE p.kind = "u8" -> [rp EXCEPT ![pr.slot].n = byte]
          [] p.kind \in {"u16le", "u32le"} ->
               IF last THEN [rp EXCEPT ![pr.slot].n = LEValue(got)] ELSE rp
          [] p.kind \in {"u16be", "u32be"} ->
               IF last THEN [rp EXCEPT ![pr.slot].n = BEValue(got)] ELSE rp
          [] OTHER -> [rp EXCEPT ![pr.slot].b[Len(got)] = byte]
  IN IF ~last THEN Step("more", Parser("payload", pr.slot, pr.need - 1, got), stored, NoErr)
     ELSE IF p.kind = "nullterm" THEN Step("more", Parser("nul", pr.slot, 1, <<>>), stored, NoErr)
     ELSE Step("more", AfterParam(rp, pr.slot, long), stored, NoErr)

\* the check of the byte read after the parameters, spi.rs:200-203
CheckEndNone(byte) == NoErr
CheckEnd(byte) == IF byte # END_CMD THEN UnexpectedReplyByte(byte, 2) ELSE NoErr

\* assert_eq!(num, trans.read().await?) fails, params.rs:34 and params.rs:80
CountMismatchNone(num, byte) == FALSE
CountMismatch(num, byte) == byte # num

\* the parser fed the byte that Transporter::read returned
ParseByte(pr, rp, first, cmd, long, byte) ==
  CASE pr.stage = "first0" -> Step("more", Parser("first1", 0, 1, <<>>), rp, NoErr)
    [] pr.stage = "first1" ->
         LET e == CheckHeader(Append(first, byte), cmd) IN
         IF e # NoErr THEN Step("err", pr, rp, e)
         ELSE Step("more", Parser("count", 0, 1, <<>>), rp, NoErr)
    [] pr.stage = "count" ->
         IF CountMismatch(Len(rp), byte) THEN Step("panic", pr, rp, NoErr)
         ELSE Step("more", AfterParam(rp, 0, long), rp, NoErr)
    [] pr.stage = "len" ->
         IF pr.need > 1
           THEN Step("more", Parser("len", pr.slot, pr.need - 1, Append(pr.acc, byte)), rp, NoErr)
           ELSE BeginParam(rp, pr.slot, BEValue(Append(pr.acc, byte)), long)
    [] pr.stage = "payload" -> PayloadByte(pr, rp, long, byte)
    [] pr.stage = "nul" ->
         IF byte # 0 THEN Step("panic", pr, rp, NoErr)
         ELSE Step("more", AfterParam(rp, pr.slot, long), rp, NoErr)
    [] pr.stage = "end" ->
         IF CheckEnd(byte) # NoErr THEN Step("err", pr, rp, CheckEnd(byte))
         ELSE Step("ok", pr, rp, NoErr)


(***************************************************************************)
(* A parameter block on its way through SerializeParams::serialize and     *)
(* ParseParams::parse (params.rs), over a Transporter that keeps the bytes *)
(* written and hands them back one per read.  phase: idle, value (to be    *)
(* serialized), wire (being parsed), parsed, panic, err.  A tuple block    *)
(* has list = FALSE; ArrayVec<U, CAP> as a block has list = TRUE, the      *)
(* capacity cap and the Default of U as item.                              *)
(***************************************************************************)
Block(list, cap, item, value, long, dest) ==
  [phase |-> "value", from |-> "host", list |-> list, cap |-> cap, item |-> item,
   value |-> value, long |-> long, stream |-> <<>>, dest |-> dest,
   pr |-> Parser("count", 0, 1, <<>>), pos |-> 0]

\* a tuple of parameters to serialize and the tuple to parse it into
TupleBlock(value, long, dest) == Block(FALSE, 0, U8(0), value, long, dest)

\* a list of parameters to serialize, parsed into ArrayVec::<U, cap>::new()
ListBlock(cap, item, value, long) == Block(TRUE, cap, item, value, long, <<>>)

\* the bytes a device sent, to be parsed into dest
Received(stream, long, dest) ==
  [TupleBlock(<<>>, long, dest) EXCEPT !.phase = "wire", !.from = "device",
                                       !.stream = stream]

NoCodec == [TupleBlock(<<>>, FALSE, <<>>) EXCEPT !.phase = "idle"]

\* SerializeParams::len of a tuple or a list, params.rs:51-55, 101-106
RECURSIVE SumLen(_, _)
SumLen(ps, long) ==
  IF ps = <<>> THEN 0 ELSE len_length_delimited(Head(ps), long) + SumLen(Tail(ps), long)

ParamsLen(ps, long) == 1 + SumLen(ps, long)

\* SerializeParams::serialize of ArrayVec<U, CAP>, params.rs:108-117: the
\* item count goes through u8::try_from(..).unwrap()
SerializeList(ps, long) ==
  (IF Len(ps) <= U8_MAX THEN <<Len(ps)>> ELSE <<PANIC>>) \o SerializeSlots(ps, long)

\* whether a serialization panicked, and the bytes written before it did
Panics(bs) == \E i \in 1..Len(bs) : bs[i] = PANIC

BeforePanic(bs) ==
  IF ~Panics(bs) THEN bs
  ELSE LET at == CHOOSE i \in 1..Len(bs) : bs[i] = PANIC /\ \A j \in 1..(i - 1) : bs[j] # PANIC
       IN SubSeq(bs, 1, at - 1)

(***************************************************************************)
(* The buffered TCP socket, lib.rs:214-302.  The bytes of the socket's     *)
(* buffer and of the callers' buffers are kept as runs: Run(w, from, n) is *)
(* the n bytes at offset from of the data passed to the w-th call; w = 0   *)
(* is the zeroed buffer of a new Socket.                                   *)
(***************************************************************************)
\* the buffer capacity of the Socket that connect returns
BUFFER_CAPACITY == 4096

\* socket-layer calls in a run, chunks of BUFFER_CAPACITY in one write, and
\* commands of one call while the coprocessor reports bytes unsent
MaxOps == 4
MaxChunks == 2
MaxCmds == 3

Min(a, b) == IF a <= b THEN a ELSE b

Run(w, from, n) == [w |-> w, from |-> from, n |-> n]

RECURSIVE RunsLen(_)
RunsLen(rs) == IF rs = <<>> THEN 0 ELSE Head(rs).n + RunsLen(Tail(rs))

\* the first k bytes of rs: &rs[..k]
RECURSIVE RunsTake(_, _)
RunsTake(rs, k) ==
  IF k <= 0 \/ rs = <<>> THEN <<>>
  ELSE LET h == Head(rs) IN
       IF h.n <= k THEN <<h>> \o RunsTake(Tail(rs), k - h.n)
       ELSE <<Run(h.w, h.from, k)>>

\* rs without its first k bytes: &rs[k..]
RECURSIVE RunsDrop(_, _)
RunsDrop(rs, k) ==
  IF rs = <<>> THEN <<>>
  ELSE IF k <= 0 THEN rs
  ELSE LET h == Head(rs) IN
       IF h.n <= k THEN RunsDrop(Tail(rs), k - h.n)
       ELSE <<Run(h.w, h.from + k, h.n - k)>> \o Tail(rs)

\* &rs[a..b]
RunsSlice(rs, a, b) == RunsTake(RunsDrop(rs, a), b - a)

\* Socket { handle, socket, cursor: 0, buffer: [0; 4096] }, lib.rs:68-73
NewSocket(socket) ==
  [open |-> TRUE, socket |-> socket, cursor |-> 0,
   buffer |-> <<Run(0, 0, BUFFER_CAPACITY)>>]
NoSocket == [open |-> FALSE, socket |-> 0, cursor |-> 0, buffer |-> <<>>]

\* what a socket-layer call returned
Ret(kind, val, err) == [kind |-> kind, val |-> val, err |-> err]
NoRet == Ret("none", 0, "none")

\* the frame of the socket-layer call in progress: its position, the
\* caller's buffer, and the locals of write, flush and connect
NoFlush == [cursor |-> 0, buffer |-> <<>>]
IdleOp ==
  [name |-> "none", pos |-> "idle", data |-> <<>>, written |-> 0, flush_cursor |-> 0,
   to_send |-> 0, sent |-> 0, socket |-> 0, flush0 |-> NoFlush]
NewOp(name, data) == [IdleOp EXCEPT !.name = name, !.pos = "run", !.data = data]

\* a call suspended in the exchange o.pos, and a call that returned r
Suspended(s, o) == [sock |-> s, op |-> o, ret |-> NoRet]
Finished(s, o, r) == [sock |-> s, op |-> [o EXCEPT !.pos = "done"], ret |-> r]

\* fill_buffer, lib.rs:250-257
fill_buffer_unclamped(s, other) ==
  LET to_write == RunsLen(other) IN
  [sock |-> [s EXCEPT !.buffer = RunsTake(@, s.cursor) \o RunsTake(other, to_write)
                                   \o RunsDrop(@, s.cursor + to_write),
                      !.cursor = @ + to_write],
   to_write |-> to_write]

fill_buffer(s, other) ==
  LET to_write == Min(RunsLen(s.buffer) - s.cursor, RunsLen(other)) IN
  [sock |-> [s EXCEPT !.buffer = RunsTake(@, s.cursor) \o RunsTake(other, to_write)
                                   \o RunsDrop(@, s.cursor + to_write),
                      !.cursor = @ + to_write],
   to_write |-> to_write]

\* the test of flush's loop, lib.rs:280
FlushPendingOrEmpty(flush_cursor, cursor) == flush_cursor <= cursor
FlushPending(flush_cursor, cursor) == flush_cursor < cursor

\* the tranche of flush, lib.rs:282
ToSendShort(cursor, flush_cursor) == Min(cursor - flush_cursor, BUFFER_CAPACITY - 1)
ToSend(cursor, flush_cursor) == Min(cursor - flush_cursor, U16_MAX)

\* flush from the test of its loop to its next exchange or its return;
\* write from a return of flush on (lib.rs:265-272)
RECURSIVE FlushLoop(_, _)

\* flush is entered, lib.rs:277
FlushStart(s, o) ==
  FlushLoop(s, [o EXCEPT !.flush_cursor = 0,
                         !.flush0 = [cursor |-> s.cursor, buffer |-> s.buffer]])

\* the test of write's loop, lib.rs:265
WriteLoopFull(s, o) ==
  IF o.written < RunsLen(o.data) \/ s.cursor = RunsLen(s.buffer) THEN FlushStart(s, o)
  ELSE Finished(s, o, Ret("Ok", o.written, "none"))

WriteLoop(s, o) ==
  IF o.written < RunsLen(o.data) THEN FlushStart(s, o)
  ELSE Finished(s, o, Ret("Ok", o.written, "none"))

\* written += fill_buffer(.., &buf[written..]), lib.rs:262 and lib.rs:269
WriteFillFromStart(s, o) ==
  LET f == fill_buffer(s, o.data) IN
  WriteLoop(f.sock, [o EXCEPT !.written = @ + f.to_write])

WriteFill(s, o) ==
  LET f == fill_buffer(s, RunsDrop(o.data, o.written)) IN
  WriteLoop(f.sock, [o EXCEPT !.written = @ + f.to_write])

\* flush returns Ok(()) to Socket::flush's caller or to write
FlushOk(s, o) ==
  IF o.name = "write" THEN WriteFill(s, o)
  ELSE Finished(s, o, Ret("Ok", 0, "none"))

\* the test of flush's loop, its tranche and the reset of the cursor,
\* lib.rs:280-300
FlushLoopReset(s, o) ==
  IF FlushPending(o.flush_cursor, s.cursor)
    THEN Suspended([s EXCEPT !.cursor = 0],
                   [o EXCEPT !.pos = "send_data",
                             !.to_send = ToSend(s.cursor, o.flush_cursor)])
    ELSE FlushOk([s EXCEPT !.cursor = 0], o)

FlushLoop(s, o) ==
  IF FlushPending(o.flush_cursor, s.cursor)
    THEN Suspended(s, [o EXCEPT !.pos = "send_data",
                                !.to_send = ToSend(s.cursor, o.flush_cursor)])
    ELSE FlushOk([s EXCEPT !.cursor = 0], o)

(***************************************************************************)
(* State.                                                                  *)
(***************************************************************************)
VARIABLES
  pc,               \* each task's position
  call,             \* each task's current call
  calls,            \* the calls each task has completed
  transport_owner,  \* holder of WifiNinaHandle.transport (handle.rs:19)
  spi_owner,        \* holder of SpiTransport.handle (spi.rs:43)
  cs,               \* level of the chip-select pin; low is asserted
  busy,             \* level of the busy pin, driven by the coprocessor
  tx,               \* the transaction a task is in: send or recv
  trans,            \* each task's BufTransporter
  out,              \* the bytes the send closure has still to write
  flush_ret,        \* where a flush returns: write (implicit) or close
  first,            \* the header bytes read so far (spi.rs:180)
  parser,           \* the parser of the reply
  recv_params,      \* the caller's receive parameters
  result,           \* what the call returned
  trace,            \* the bus events of the task's current exchange
  wire,             \* the bursts of the write transaction
  rx                \* the bytes received in the read transaction

VARIABLES
  sock,             \* the Socket that connect returned (lib.rs:214-219)
  op,               \* the socket-layer call in progress
  hist,             \* the socket-layer calls made, with the commands each issued
  issued            \* the socket ids that GetSocket exchanges returned

VARIABLES
  codec             \* a parameter block on its way through serialize and parse

VARIABLES
  poll,             \* a call of WifiNina::await_connection_state (lib.rs:136-161)
  boot              \* SpiTransport::start and the reset line (spi.rs:117-145, 221-243)

bus_vars == <<pc, call, calls, transport_owner, spi_owner, cs, busy, tx, trans, out,
              flush_ret, first, parser, recv_params, result, trace, wire, rx>>
sock_vars == <<sock, op, hist, issued>>
vars == <<bus_vars, sock_vars, codec, poll, boot>>

\* positions at which a future is suspended (its await is pending)
SuspendPcs == {"lock", "spi_lock", "wait_low", "wait_high", "xfer", "bus_flush", "refill"}
\* positions inside a poll
RunPcs == {"write", "read", "done"}
\* positions at which a BufTransporter exists
TransPcs == {"write", "xfer", "bus_flush", "refill", "read"}

\* a task inside a poll: lock() on a free mutex resolves without suspending
Running(u) == pc[u] \in RunPcs \/ (pc[u] = "spi_lock" /\ spi_owner = NoTask)
\* the cooperative executor polls one task at a time
Exclusive(t) == \A u \in Tasks \ {t} : ~Running(u)

\* BufTransporter { buffer: [0; CAPACITY], cursor: 0 }, spi.rs:351-355
NewTransporter(cap) == [live |-> TRUE, cap |-> cap, buffer |-> Zeros(cap), cursor |-> 0]
NoTransporter == [live |-> FALSE, cap |-> 0, buffer |-> <<>>, cursor |-> 0]
\* BufTransporter::clear, spi.rs:359-362
Clear(tr) == [tr EXCEPT !.buffer = Zeros(tr.cap), !.cursor = 0]

CapacitySix(kind) == IF kind = "send" THEN SEND_CAPACITY - 2 ELSE RECV_CAPACITY
Capacity(kind) == IF kind = "send" THEN SEND_CAPACITY ELSE RECV_CAPACITY

\* the frame the send closure writes, spi.rs:162-167
Frame(c) ==
  <<START_CMD, ClearReplyFlag(c.cmd)>> \o SerializeParams(c.send, c.long_send) \o <<END_CMD>>

\* the padding loop of flush, spi.rs:367-370: the cursor after it
PadCursorNone(cursor) == cursor
PadCursor(cursor) ==
  cursor + ((PAD_MULTIPLE - (cursor % PAD_MULTIPLE)) % PAD_MULTIPLE)

\* the transporter after the padding loop
Padded(tr) ==
  [tr EXCEPT !.buffer = [i \in 1..Len(@) |->
                           IF i > tr.cursor /\ i <= PadCursor(tr.cursor) THEN PAD_BYTE ELSE @[i]],
             !.cursor = PadCursor(tr.cursor)]

\* where the receive closure starts: trans.refill().await?, spi.rs:178
ReadEntryNoRefill == "read"
ReadEntry == "refill"

\* the levels BufTransporter::new waits for, spi.rs:336 and 347
WaitBeforeCs == "low"
WaitAfterCsSame == "low"
WaitAfterCs == "high"

\* Is the inner mutex held when the transporter of task t is dropped?  The
\* guard of the statement that fails (or is suspended) is a temporary of an
\* inner future: it is dropped before the closure's captured transporter.
GuardHeldAtDropOwn(owner, t) == owner # NoTask
GuardHeldAtDrop(owner, t) == owner \notin {NoTask, t}

\* Drop for BufTransporter, spi.rs:420-422: try_lock, then cs.set_high()
\* (whose result is discarded; the pin write is taken to take effect)
DropTransporterLeak(held, level) == level
DropTransporter(held, level) == IF held THEN level ELSE "high"

\* GenericMutex::lock on WifiNinaHandle.transport resolves when it is free
TransportLockNone(owner) == TRUE
TransportLockFree(owner) == owner = NoTask

\* the bytes the coprocessor may put on the bus in reply to command c
DeviceBytes(c) == {START_CMD, ERR_CMD, END_CMD, 0, 1, 2, SetReplyFlag(c.cmd)}

\* the version string "1.2.3" of a coprocessor's firmware
Version == <<49, 46, 50, 46, 51>>

\* whole replies that a coprocessor may also give: to GetFwVersion the
\* version string as the slot, with and without a closing 0x00; to
\* GetConnStatus the status 3
Replies(c) ==
  LET head == <<START_CMD, SetReplyFlag(c.cmd), 1>> IN
  CASE c.cmd = GetFwVersionCmd ->
         {head \o <<Len(Version)>> \o Version \o <<END_CMD>>,
          head \o <<Len(Version) + 1>> \o Version \o <<0, END_CMD>>}
    [] c.cmd = GetConnStatusCmd -> {head \o <<1, 3, END_CMD>>}
    [] OTHER -> {}

ReplyBytes(c) == DeviceBytes(c) \cup UNION {{r[i] : i \in 1..Len(r)} : r \in Replies(c)}

\* the bytes that may follow the bytes got of a reply: any of DeviceBytes,
\* or the next byte of a whole reply begun; a reply that has left
\* DeviceBytes is played to its end
NextBytes(c, got) ==
  LET next == {r[Len(got) + 1] :
                 r \in {q \in Replies(c) : Len(got) < Len(q) /\ SubSeq(q, 1, Len(got)) = got}}
  IN IF next # {} /\ \E i \in 1..Len(got) : got[i] \notin DeviceBytes(c)
       THEN next ELSE DeviceBytes(c) \cup next

(***************************************************************************)
(* WifiNina::await_connection_state, lib.rs:136-161.  timeout, interval    *)
(* and total_time are u32, kept as two 16-bit words.  total_time +=        *)
(* interval panics on overflow in a build with overflow checks and wraps   *)
(* in one without; build says which.  pc: idle, poll, delay, done.         *)
(***************************************************************************)
WORD == U16_MAX + 1
U32(hi, lo) == [hi |-> hi, lo |-> lo]
U32_MAX == U32(U16_MAX, U16_MAX)

\* a + b on 32 bits, and whether the sum left them
U32Sum(a, b) ==
  LET lo == a.lo + b.lo
      hi == a.hi + b.hi + (lo \div WORD)
  IN [v |-> U32(hi % WORD, lo % WORD), overflow |-> hi >= WORD]

\* a > b
U32Gt(a, b) == a.hi > b.hi \/ (a.hi = b.hi /\ a.lo > b.lo)

\* the statuses get_connection_state can report
Statuses == {0, 1, 3}

NoPoll ==
  [pc |-> "idle", target |-> 0, timeout |-> U32(0, 0), interval |-> U32(0, 0),
   build |-> "release", total_time |-> U32(0, 0), actual |-> 0, polled |-> FALSE,
   ret |-> NoRet]

\* await_connection_state is called: let mut total_time = 0, lib.rs:143
NewPoll(target, timeout, interval, build) ==
  [NoPoll EXCEPT !.pc = "poll", !.target = target, !.timeout = timeout,
                 !.interval = interval, !.build = build]

Timeouts == {U32(0, 0), U32(0, 2), U32_MAX}
Intervals == {U32(0, 0), U32(0, 1), U32(WORD \div 2, 0), U32_MAX}

\* the timeouts and intervals of the calls made: those with which the loop
\* ends, wraps or comes back to where it was within a few polls
AwaitArgs ==
  {a \in Timeouts \X Intervals :
     /\ a[1].hi = 0 \/ a[2].hi > 0 \/ a[2] = U32(0, 0)
     /\ a # <<U32_MAX, U32_MAX>>}

\* get_connection_state().await? returns, lib.rs:147-150
AwaitPoll ==
  /\ poll.pc = "poll"
  /\ \/ poll' = [poll EXCEPT !.pc = "done", !.ret = Ret("Err", 0, "Transport")]
     \/ \E actual \in Statuses :
          poll' = [poll EXCEPT !.actual = actual, !.polled = TRUE,
                               !.pc = IF actual = poll.target THEN "done" ELSE "delay",
                               !.ret = IF actual = poll.target THEN Ret("Ok", 0, "none")
                                       ELSE NoRet]
  /\ UNCHANGED <<bus_vars, sock_vars, codec, boot>>

\* if total_time > timeout { break }, lib.rs:155-157
TimedOut(total_time, timeout) == U32Gt(total_time, timeout)

\* delay_ms(interval) is over: total_time += interval, then the test of the
\* timeout, lib.rs:152-160
AwaitDelay ==
  /\ poll.pc = "delay"
  /\ LET sum == U32Sum(poll.total_time, poll.interval) IN
     IF sum.overflow /\ poll.build = "debug"
       THEN poll' = [poll EXCEPT !.pc = "done", !.ret = Ret("Panic", 0, "overflow")]
       ELSE poll' = [poll EXCEPT
                       !.total_time = sum.v,
                       !.pc = IF TimedOut(sum.v, poll.timeout) THEN "done" ELSE "poll",
                       !.ret = IF TimedOut(sum.v, poll.timeout)
                                 THEN Ret("Err", poll.actual, "ConnectionFailure")
                                 ELSE NoRet]
  /\ UNCHANGED <<bus_vars, sock_vars, codec, boot>>

(***************************************************************************)
(* SpiTransport::start (spi.rs:221-243) and Transport::reset               *)
(* (spi.rs:117-145) in the default build, where the reset line is asserted *)
(* low.  pc: start, delay_100, delay_750, started, failed, dropped.        *)
(* events: what reset has done, in order.                                  *)
(***************************************************************************)
RESET_ASSERTED_MS == 100
RESET_RELEASED_MS == 750

Delayed(ms) == [e |-> "delay_ms", x |-> ms]
Driven(level) == [e |-> "reset", x |-> level]

\* before start is called; the reset pin is at the level the caller left it
Unstarted(level) == [pc |-> "start", reset |-> level, events |-> <<>>]

\* start has returned Ok(this) after a reset that did all its steps
Started ==
  [pc |-> "started", reset |-> "high",
   events |-> <<Driven("low"), Delayed(RESET_ASSERTED_MS),
                Driven("high"), Delayed(RESET_RELEASED_MS)>>]

\* a transport exists: start returned Ok(this), spi.rs:240-242
HasTransportAlways(b) == TRUE
HasTransport(b) == b.pc = "started"

\* start builds the transport and calls reset, whose set_low succeeds, and
\* delay_ms(100) is awaited; or set_low fails and start returns the error
ResetAssert ==
  /\ boot.pc = "start"
  /\ \/ boot' = [boot EXCEPT !.pc = "delay_100", !.reset = "low",
                               !.events = Append(@, Driven("low"))]
     \/ boot' = [boot EXCEPT !.pc = "failed"]
  /\ UNCHANGED <<bus_vars, sock_vars, codec, poll>>

\* delay_ms(100) is over; set_high succeeds and delay_ms(750) is awaited, or
\* it fails and start returns the error
ResetRelease ==
  /\ boot.pc = "delay_100"
  /\ LET waited == Append(boot.events, Delayed(RESET_ASSERTED_MS)) IN
     \/ boot' = [boot EXCEPT !.pc = "delay_750", !.reset = "high",
                               !.events = Append(waited, Driven("high"))]
     \/ boot' = [boot EXCEPT !.pc = "failed", !.events = waited]
  /\ UNCHANGED <<bus_vars, sock_vars, codec, poll>>

\* delay_ms(750) is over: reset returns Ok(()) and start returns Ok(this)
ResetDone ==
  /\ boot.pc = "delay_750"
  /\ boot' = [boot EXCEPT !.pc = "started",
                           !.events = Append(@, Delayed(RESET_RELEASED_MS))]
  /\ UNCHANGED <<bus_vars, sock_vars, codec, poll>>

\* the caller drops the future of start while a delay is pending
StartDropped ==
  /\ boot.pc \in {"delay_100", "delay_750"}
  /\ boot' = [boot EXCEPT !.pc = "dropped"]
  /\ UNCHANGED <<bus_vars, sock_vars, codec, poll>>

\* after SpiTransport::start: no call is in progress and the locks are free;
\* reset does not drive chip-select (spi.rs:118), which idles deasserted as
\* the caller configured the pin
ProgramInit ==
  /\ pc = [t \in Tasks |-> "idle"]
  /\ call = [t \in Tasks |-> NoCall]
  /\ calls = [t \in Tasks |-> 0]
  /\ transport_owner = NoTask
  /\ spi_owner = NoTask
  /\ cs = "high"
  /\ busy \in {"low", "high"}
  /\ tx = [t \in Tasks |-> "none"]
  /\ trans = [t \in Tasks |-> NoTransporter]
  /\ out = [t \in Tasks |-> <<>>]
  /\ flush_ret = [t \in Tasks |-> "none"]
  /\ first = [t \in Tasks |-> <<>>]
  /\ parser = [t \in Tasks |-> ParserInit]
  /\ recv_params = [t \in Tasks |-> <<>>]
  /\ result = [t \in Tasks |-> NoResult]
  /\ trace = [t \in Tasks |-> <<>>]
  /\ wire = [t \in Tasks |-> <<>>]
  /\ rx = [t \in Tasks |-> <<>>]
  /\ sock = NoSocket
  /\ op = IdleOp
  /\ hist = <<>>
  /\ issued = {}

Init == ProgramInit /\ codec = NoCodec /\ poll = NoPoll /\ boot = Started

(***************************************************************************)
(* The end of an exchange: the futures of handle_cmd are dropped, on a     *)
(* return (Ok or Err), on a panic, or because the caller dropped the       *)
(* pending future.  hasTrans: a BufTransporter exists and is dropped.      *)
(* The guard of WifiNinaHandle.transport is released (handle.rs:736-741).  *)
(***************************************************************************)
EndExchange(t, res, hasTrans) ==
  LET level == IF hasTrans THEN DropTransporter(GuardHeldAtDrop(spi_owner, t), cs) ELSE cs IN
  /\ pc' = [pc EXCEPT ![t] = "done"]
  /\ result' = [result EXCEPT ![t] = res]
  /\ cs' = level
  /\ trace' = [trace EXCEPT ![t] = IF hasTrans /\ level = "high" THEN Append(@, "cs_high") ELSE @]
  /\ spi_owner' = IF spi_owner = t THEN NoTask ELSE spi_owner
  /\ transport_owner' = IF transport_owner = t THEN NoTask ELSE transport_owner
  /\ trans' = [trans EXCEPT ![t] = NoTransporter]

(***************************************************************************)
(* A task calls a command method (handle.rs): the method builds its        *)
(* parameters and awaits the lock of the transport.                        *)
(***************************************************************************)
StartCall(t) ==
  /\ HasTransport(boot)
  /\ pc[t] = "idle"
  /\ calls[t] < MaxCalls
  /\ Exclusive(t)
  /\ \E c \in Menu(t) :
       /\ call' = [call EXCEPT ![t] = c]
       /\ recv_params' = [recv_params EXCEPT ![t] = c.recv]
  /\ pc' = [pc EXCEPT ![t] = "lock"]
  /\ UNCHANGED <<calls, transport_owner, spi_owner, cs, busy, tx, trans, out,
                 flush_ret, first, parser, result, trace, wire, rx>>
  /\ UNCHANGED <<sock_vars, codec, poll, boot>>

\* WifiNinaHandle::handle_cmd: the lock is acquired and Transport::handle_cmd
\* starts its first transaction, whose BufTransporter::new locks the bus
HandleCmdLock(t) ==
  /\ pc[t] = "lock"
  /\ Exclusive(t)
  /\ TransportLockFree(transport_owner)
  /\ transport_owner' = t
  /\ tx' = [tx EXCEPT ![t] = "send"]
  /\ out' = [out EXCEPT ![t] = Frame(call[t])]
  /\ pc' = [pc EXCEPT ![t] = "spi_lock"]
  /\ trace' = [trace EXCEPT ![t] = <<>>]
  /\ wire' = [wire EXCEPT ![t] = <<>>]
  /\ rx' = [rx EXCEPT ![t] = <<>>]
  /\ first' = [first EXCEPT ![t] = <<>>]
  /\ parser' = [parser EXCEPT ![t] = ParserInit]
  /\ UNCHANGED <<call, calls, spi_owner, cs, busy, trans, flush_ret, recv_params, result>>
  /\ UNCHANGED <<sock_vars, codec, poll, boot>>

(***************************************************************************)
(* BufTransporter::new, spi.rs:329-356.                                    *)
(***************************************************************************)
\* spi.lock() resolves and wait_for_low is awaited
NewLock(t) ==
  /\ pc[t] = "spi_lock"
  /\ Exclusive(t)
  /\ spi_owner = NoTask
  /\ spi_owner' = t
  /\ pc' = [pc EXCEPT ![t] = "wait_low"]
  /\ UNCHANGED <<call, calls, transport_owner, cs, busy, tx, trans, out, flush_ret,
                 first, parser, recv_params, result, trace, wire, rx>>
  /\ UNCHANGED <<sock_vars, codec, poll, boot>>

\* wait_for_low resolves; chip-select is asserted; wait_for_high is awaited
NewWaitLowOk(t) ==
  /\ pc[t] = "wait_low"
  /\ Exclusive(t)
  /\ busy = WaitBeforeCs
  /\ cs' = "low"
  /\ trace' = [trace EXCEPT ![t] = @ \o <<"busy_" \o busy, "cs_low">>]
  /\ pc' = [pc EXCEPT ![t] = "wait_high"]
  /\ UNCHANGED <<call, calls, transport_owner, spi_owner, busy, tx, trans, out,
                 flush_ret, first, parser, recv_params, result, wire, rx>>
  /\ UNCHANGED <<sock_vars, codec, poll, boot>>

\* wait_for_low fails (SpiError::Busy), or it resolves and cs.set_low fails
\* (SpiError::Cs): no transporter exists
NewWaitLowErr(t) ==
  /\ pc[t] = "wait_low"
  /\ Exclusive(t)
  /\ \E e \in {"Busy", "Cs"} :
       /\ e = "Cs" => busy = WaitBeforeCs
       /\ EndExchange(t, Result("Err", Err(e, 0, 0), tx[t], "wait_low"), FALSE)
  /\ UNCHANGED <<call, calls, busy, tx, out, flush_ret, first, parser,
                 recv_params, wire, rx>>
  /\ UNCHANGED <<sock_vars, codec, poll, boot>>

\* transaction::<CAPACITY>: the transporter exists and the closure starts.
\* The send closure writes; the receive closure calls refill (spi.rs:178).
NewWaitHighOk(t) ==
  /\ pc[t] = "wait_high"
  /\ Exclusive(t)
  /\ busy = WaitAfterCs
  /\ trace' = [trace EXCEPT ![t] = Append(@, "busy_" \o busy)]
  /\ trans' = [trans EXCEPT ![t] = NewTransporter(Capacity(tx[t]))]
  /\ pc' = [pc EXCEPT ![t] = IF tx[t] = "send" THEN "write" ELSE ReadEntry]
  /\ spi_owner' = IF tx[t] = "recv" /\ ReadEntry = "refill" THEN t ELSE NoTask
  /\ UNCHANGED <<call, calls, transport_owner, cs, busy, tx, out,
                 flush_ret, first, parser, recv_params, result, wire, rx>>
  /\ UNCHANGED <<sock_vars, codec, poll, boot>>

\* wait_for_high fails: new returns the error before a transporter exists
NewWaitHighErr(t) ==
  /\ pc[t] = "wait_high"
  /\ Exclusive(t)
  /\ EndExchange(t, Result("Err", Err("Busy", 0, 0), tx[t], "wait_high"), FALSE)
  /\ UNCHANGED <<call, calls, busy, tx, out, flush_ret, first, parser,
                 recv_params, wire, rx>>
  /\ UNCHANGED <<sock_vars, codec, poll, boot>>

(***************************************************************************)
(* The send closure, spi.rs:161-172, over BufTransporter::write            *)
(* (spi.rs:306-316) and flush (spi.rs:365-392).                            *)
(***************************************************************************)
\* flush: the padding loop, then transfer_in_place is awaited
FlushBegin(t, ret) ==
  /\ spi_owner = NoTask
  /\ trans' = [trans EXCEPT ![t] = Padded(@)]
  /\ flush_ret' = [flush_ret EXCEPT ![t] = ret]
  /\ spi_owner' = t
  /\ pc' = [pc EXCEPT ![t] = "xfer"]

\* the closure writes its next byte; a full buffer is flushed first; after
\* the end byte the closure calls flush
TransWrite(t) ==
  /\ pc[t] = "write"
  /\ Exclusive(t)
  /\ IF out[t] = <<>>
       THEN /\ FlushBegin(t, "close")
            /\ UNCHANGED <<out, result, cs, transport_owner, trace>>
       ELSE IF Head(out[t]) = PANIC
         THEN \* serialize_len's unwrap panics while the closure serializes
              /\ EndExchange(t, Result("Panic", NoErr, tx[t], "write"), TRUE)
              /\ UNCHANGED <<out, flush_ret>>
       ELSE IF trans[t].cursor >= trans[t].cap
         THEN /\ FlushBegin(t, "write")
              /\ UNCHANGED <<out, result, cs, transport_owner, trace>>
         ELSE /\ trans' = [trans EXCEPT ![t].buffer[trans[t].cursor + 1] = Head(out[t]),
                                        ![t].cursor = @ + 1]
              /\ out' = [out EXCEPT ![t] = Tail(@)]
              /\ UNCHANGED <<pc, flush_ret, spi_owner, result, cs, transport_owner, trace>>
  /\ UNCHANGED <<call, calls, busy, tx, first, parser, recv_params, wire, rx>>
  /\ UNCHANGED <<sock_vars, codec, poll, boot>>

\* transfer_in_place of buffer[0..cursor] completes; spi.flush() is awaited
FlushTransferOk(t) ==
  /\ pc[t] = "xfer"
  /\ Exclusive(t)
  /\ wire' = [wire EXCEPT ![t] = Append(@, SubSeq(trans[t].buffer, 1, trans[t].cursor))]
  /\ trace' = [trace EXCEPT ![t] = Append(@, "xfer")]
  /\ pc' = [pc EXCEPT ![t] = "bus_flush"]
  /\ UNCHANGED <<call, calls, transport_owner, spi_owner, cs, busy, tx, trans, out,
                 flush_ret, first, parser, recv_params, result, rx>>
  /\ UNCHANGED <<sock_vars, codec, poll, boot>>

\* spi.flush() completes and the buffer is cleared: an implicit flush returns
\* to write; after the explicit one the closure returns Ok, the transporter
\* is dropped, and handle_cmd opens the read transaction (spi.rs:177)
BusFlushOk(t) ==
  /\ pc[t] = "bus_flush"
  /\ Exclusive(t)
  /\ IF flush_ret[t] = "write"
       THEN /\ trans' = [trans EXCEPT ![t] = Clear(@)]
            /\ spi_owner' = NoTask
            /\ pc' = [pc EXCEPT ![t] = "write"]
            /\ trace' = [trace EXCEPT ![t] = Append(@, "bus_flush")]
            /\ UNCHANGED <<cs, tx>>
       ELSE LET level == DropTransporter(GuardHeldAtDrop(spi_owner, t), cs) IN
            /\ trans' = [trans EXCEPT ![t] = NoTransporter]
            /\ cs' = level
            /\ trace' = [trace EXCEPT ![t] =
                           @ \o (IF level = "high" THEN <<"bus_flush", "cs_high">>
                                 ELSE <<"bus_flush">>)]
            /\ tx' = [tx EXCEPT ![t] = "recv"]
            /\ spi_owner' = NoTask
            /\ pc' = [pc EXCEPT ![t] = "spi_lock"]
  /\ UNCHANGED <<call, calls, transport_owner, busy, out, flush_ret, first,
                 parser, recv_params, result, wire, rx>>
  /\ UNCHANGED <<sock_vars, codec, poll, boot>>

\* the SPI bus fails a transfer or a flush (SpiError::Spi): the error leaves
\* the closure and the transporter is dropped
SpiErr(t) ==
  /\ pc[t] \in {"xfer", "bus_flush", "refill"}
  /\ Exclusive(t)
  /\ EndExchange(t, Result("Err", Err("Spi", 0, 0), tx[t], pc[t]), TRUE)
  /\ UNCHANGED <<call, calls, busy, tx, out, flush_ret, first, parser,
                 recv_params, wire, rx>>
  /\ UNCHANGED <<sock_vars, codec, poll, boot>>

(***************************************************************************)
(* The receive closure, spi.rs:177-205, over BufTransporter::read          *)
(* (spi.rs:294-304) and refill (spi.rs:395-408).                           *)
(***************************************************************************)
\* refill: the buffer was cleared and transfer_in_place fills it
RefillOk(t) ==
  /\ pc[t] = "refill"
  /\ Exclusive(t)
  /\ \E bs \in [1..trans[t].cap -> ReplyBytes(call[t])] :
       /\ \A i \in 1..trans[t].cap :
            bs[i] \in NextBytes(call[t], rx[t] \o SubSeq(bs, 1, i - 1))
       /\ trans' = [trans EXCEPT ![t].buffer = bs, ![t].cursor = 0]
       /\ rx' = [rx EXCEPT ![t] = @ \o bs]
  /\ trace' = [trace EXCEPT ![t] = Append(@, "xfer")]
  /\ spi_owner' = NoTask
  /\ pc' = [pc EXCEPT ![t] = "read"]
  /\ UNCHANGED <<call, calls, transport_owner, cs, busy, tx, out, flush_ret,
                 first, parser, recv_params, result, wire>>
  /\ UNCHANGED <<sock_vars, codec, poll, boot>>

\* read: a consumed buffer is refilled; else the next byte goes to the parser
TransRead(t) ==
  /\ pc[t] = "read"
  /\ Exclusive(t)
  /\ IF trans[t].cursor >= trans[t].cap
       THEN /\ spi_owner = NoTask
            /\ spi_owner' = t
            /\ pc' = [pc EXCEPT ![t] = "refill"]
            /\ UNCHANGED <<trans, first, parser, recv_params, result, cs,
                           transport_owner, trace>>
       ELSE LET byte == trans[t].buffer[trans[t].cursor + 1]
                step == ParseByte(parser[t], recv_params[t], first[t], call[t].cmd,
                                  call[t].long_recv, byte)
            IN /\ first' = [first EXCEPT ![t] = IF Len(@) < 2 THEN Append(@, byte) ELSE @]
               /\ parser' = [parser EXCEPT ![t] = step.pr]
               /\ recv_params' = [recv_params EXCEPT ![t] = step.recv]
               /\ IF step.st = "more"
                    THEN /\ trans' = [trans EXCEPT ![t].cursor = @ + 1]
                         /\ UNCHANGED <<pc, result, cs, spi_owner, transport_owner, trace>>
                    ELSE EndExchange(t,
                           Result(CASE step.st = "ok" -> "Ok"
                                    [] step.st = "err" -> "Err"
                                    [] step.st = "panic" -> "Panic",
                                  step.err, tx[t], parser[t].stage), TRUE)
  /\ UNCHANGED <<call, calls, busy, tx, out, flush_ret, wire, rx>>
  /\ UNCHANGED <<sock_vars, codec, poll, boot>>

(***************************************************************************)
(* The caller, the drop of a pending future, and the coprocessor.          *)
(***************************************************************************)
\* the method returns to its caller, which goes on in the same poll
Return(t) ==
  /\ pc[t] = "done"
  /\ pc' = [pc EXCEPT ![t] = "idle"]
  /\ calls' = [calls EXCEPT ![t] = @ + 1]
  /\ call' = [call EXCEPT ![t] = NoCall]
  /\ result' = [result EXCEPT ![t] = NoResult]
  /\ recv_params' = [recv_params EXCEPT ![t] = <<>>]
  /\ tx' = [tx EXCEPT ![t] = "none"]
  /\ out' = [out EXCEPT ![t] = <<>>]
  /\ flush_ret' = [flush_ret EXCEPT ![t] = "none"]
  /\ first' = [first EXCEPT ![t] = <<>>]
  /\ parser' = [parser EXCEPT ![t] = ParserInit]
  /\ trace' = [trace EXCEPT ![t] = <<>>]
  /\ wire' = [wire EXCEPT ![t] = <<>>]
  /\ rx' = [rx EXCEPT ![t] = <<>>]
  /\ UNCHANGED <<transport_owner, spi_owner, cs, busy, trans>>
  /\ UNCHANGED <<sock_vars, codec, poll, boot>>

\* whether await_connection_state goes round its loop once more after a
\* poll (lib.rs:146-158): `?` returns an error of the poll at once, and a
\* state equal to the one awaited returns Ok
PollsAgainAlways(r, status, wanted) == status # wanted
PollsAgain(r, status, wanted) == r.kind = "Ok" /\ status # wanted

\* the loop of await_connection_state: after the delay, when the time is
\* not up, get_connection_state is called again
PollAgain(t) ==
  /\ pc[t] = "done"
  /\ call[t] = get_connection_state
  /\ Exclusive(t)
  /\ \E wanted \in DeviceBytes(call[t]) :
       PollsAgain(result[t], recv_params[t][1].n, wanted)
  /\ pc' = [pc EXCEPT ![t] = "lock"]
  /\ result' = [result EXCEPT ![t] = NoResult]
  /\ recv_params' = [recv_params EXCEPT ![t] = call[t].recv]
  /\ tx' = [tx EXCEPT ![t] = "none"]
  /\ out' = [out EXCEPT ![t] = <<>>]
  /\ flush_ret' = [flush_ret EXCEPT ![t] = "none"]
  /\ first' = [first EXCEPT ![t] = <<>>]
  /\ parser' = [parser EXCEPT ![t] = ParserInit]
  /\ trace' = [trace EXCEPT ![t] = <<>>]
  /\ wire' = [wire EXCEPT ![t] = <<>>]
  /\ rx' = [rx EXCEPT ![t] = <<>>]
  /\ UNCHANGED <<call, calls, transport_owner, spi_owner, cs, busy, trans>>
  /\ UNCHANGED <<sock_vars, codec, poll, boot>>

\* the pending future of the call is dropped at a suspension point: its
\* guards are dropped, then the transporter if one exists
Cancel(t) ==
  /\ pc[t] \in SuspendPcs
  /\ ~Running(t)
  /\ Exclusive(t)
  /\ EndExchange(t, Result("Cancelled", NoErr, tx[t], pc[t]), pc[t] \in TransPcs)
  /\ UNCHANGED <<call, calls, busy, tx, out, flush_ret, first, parser,
                 recv_params, wire, rx>>
  /\ UNCHANGED <<sock_vars, codec, poll, boot>>

\* the coprocessor drives its busy line
DeviceBusy ==
  /\ busy' = IF busy = "low" THEN "high" ELSE "low"
  /\ UNCHANGED <<pc, call, calls, transport_owner, spi_owner, cs, tx, trans, out,
                 flush_ret, first, parser, recv_params, result, trace, wire, rx>>
  /\ UNCHANGED <<sock_vars, codec, poll, boot>>

Next ==
  \/ \E t \in Tasks :
       \/ StartCall(t)
       \/ HandleCmdLock(t)
       \/ NewLock(t)
       \/ NewWaitLowOk(t)
       \/ NewWaitLowErr(t)
       \/ NewWaitHighOk(t)
       \/ NewWaitHighErr(t)
       \/ TransWrite(t)
       \/ FlushTransferOk(t)
       \/ BusFlushOk(t)
       \/ SpiErr(t)
       \/ RefillOk(t)
       \/ TransRead(t)
       \/ Return(t)
       \/ PollAgain(t)
       \/ Cancel(t)
  \/ DeviceBusy

Spec == Init /\ [][Next]_vars

\* a call of await_connection_state, with a coprocessor that answers every
\* get_connection_state and a delay that ends
AwaitInit ==
  /\ ProgramInit /\ busy = "high" /\ codec = NoCodec /\ boot = Started
  /\ poll \in {NewPoll(target, a[1], a[2], build) :
                 target \in Statuses, a \in AwaitArgs, build \in {"debug", "release"}}

AwaitNext ==
  \/ AwaitPoll
  \/ AwaitDelay

AwaitSpec ==
  /\ AwaitInit
  /\ [][AwaitNext]_vars
  /\ WF_vars(AwaitPoll)
  /\ WF_vars(AwaitDelay)

\* the program from the call of SpiTransport::start on
StartInit ==
  /\ ProgramInit /\ codec = NoCodec /\ poll = NoPoll
  /\ boot \in {Unstarted(level) : level \in {"low", "high"}}

StartNext ==
  \/ ResetAssert
  \/ ResetRelease
  \/ ResetDone
  \/ StartDropped
  \/ Next

StartSpec == StartInit /\ [][StartNext]_vars

(***************************************************************************)
(* The socket layer: connect (lib.rs:50-74) and the methods of Socket      *)
(* (lib.rs:224-301).  Each command exchange is one of the exchanges of     *)
(* Spec; here it is a suspension point of the call and its outcome is      *)
(* what the exchange can return: an error of the transport, or Ok with the *)
(* value the coprocessor put in its reply.                                 *)
(***************************************************************************)
\* the socket id a GetSocket reply carries: the coprocessor hands out an id
\* that it has not handed out before
NextSocketId(ids) == Cardinality(ids) + 1
\* the remote of connect, 10.0.0.1:443
Remote == [ip |-> 167772161, port |-> 443]
\* the lengths of the buffers passed to write and to read
WriteSizes == {k * BUFFER_CAPACITY + d : k \in {0, 1, MaxChunks}, d \in {0, 1}}
ReadSizes == {1, U16_MAX, U16_MAX + 1}
\* the caller's buffer of the call that will be hist[w]
CallerBuf(w, n) == IF n = 0 THEN <<>> ELSE <<Run(w, 0, n)>>

\* the length get_data_buf asks for: buf.len(), handle.rs:597
RequestedCapped(buf) == Min(RunsLen(buf), BUFFER_CAPACITY)
Requested(buf) == RunsLen(buf)

\* the socket id among the send parameters of a call
SocketOf(c) ==
  CASE c.cmd = StartClientTcpCmd -> c.send[3].n
    [] c.send = <<>> -> -1
    [] OTHER -> c.send[1].n

\* a command as it goes to handle_cmd: c gives the opcode, the socket id
\* and the length modes; payload is the data slot of send_data, n the
\* length of the payload or the length requested by get_data_buf
Reply(kind, val) == [kind |-> kind, val |-> val]
Command(c, payload, n) ==
  [cmd |-> c.cmd, long_send |-> c.long_send, long_recv |-> c.long_recv,
   socket |-> SocketOf(c), payload |-> payload, n |-> n, reply |-> Reply("pending", 0)]

\* the command of the exchange in which the call o is suspended
CommandAt(s, o) ==
  CASE o.pos = "get_socket" -> Command(get_socket, <<>>, 0)
    [] o.pos = "start_client" -> Command(start_client_by_addr(Remote, o.socket, 0), <<>>, 0)
    [] o.pos = "send_data" ->
         Command(send_data(s.socket, <<>>),
                 RunsSlice(s.buffer, o.flush_cursor, o.flush_cursor + o.to_send), o.to_send)
    [] o.pos = "check_data_sent" -> Command(check_data_sent(s.socket), <<>>, 0)
    [] o.pos = "get_data_buf" -> Command(get_data_buf(s.socket, <<>>), <<>>, Requested(o.data))
    [] o.pos = "get_client_state" -> Command(get_client_state(s.socket), <<>>, 0)

HistEntry(name, n, s) ==
  [name |-> name, n |-> n, cursor0 |-> s.cursor, buffer0 |-> s.buffer,
   cmds |-> <<>>, sends |-> 0, all_sent |-> TRUE, flush0 |-> NoFlush, ret |-> NoRet]

\* the record of the calls: the call in progress or last returned is kept
\* whole; of the one before it, its arguments, how it returned, the number of
\* its SendDataTcp commands and whether the coprocessor reported every
\* tranche sent; of older calls only that they were made
PastCall == [name |-> "past", n |-> 0, cursor0 |-> 0, buffer0 |-> <<>>,
             cmds |-> <<>>, sends |-> 0, all_sent |-> TRUE, flush0 |-> NoFlush,
             ret |-> Ret("Ok", 0, "none")]
Called(h, e) ==
  Append([i \in DOMAIN h |->
            IF i = Len(h)
              THEN [h[i] EXCEPT !.cmds = <<>>, !.buffer0 = <<>>, !.flush0 = NoFlush,
                                !.ret = Ret(@.kind, 0, "none")]
              ELSE PastCall], e)

\* the reply r to the command c says that the tranche was sent
ReportsSent(c, r) ==
  CASE c.cmd = SendDataTcpCmd -> r.kind = "Ok" /\ r.val = c.n
    [] c.cmd = DataSentTcpCmd -> r.kind = "Ok" /\ r.val = 1
    [] OTHER -> TRUE

\* hist with the reply to the pending command of the call in progress
Replied(h, r) ==
  LET e == h[Len(h)]
      k == Len(e.cmds)
  IN [h EXCEPT ![Len(h)].cmds[k].reply = r,
               ![Len(h)].all_sent = @ /\ ReportsSent(e.cmds[k], r)]

\* the call goes on to st: it is suspended in its next exchange, whose
\* command is issued, or it has returned; the record keeps the cursor and
\* the buffer as the latest flush of the call found them
Settle(st, h0) ==
  LET h == [h0 EXCEPT ![Len(h0)].flush0 = st.op.flush0] IN
  /\ sock' = st.sock
  /\ IF st.ret = NoRet
       THEN /\ op' = st.op
            /\ hist' = [h EXCEPT ![Len(h)].cmds = Append(@, CommandAt(st.sock, st.op)),
                                 ![Len(h)].sends =
                                    IF st.op.pos = "send_data" THEN @ + 1 ELSE @]
       ELSE /\ op' = IdleOp
            /\ hist' = [h EXCEPT ![Len(h)].ret = st.ret]

\* a socket-layer call can start: none is in progress and none has panicked
CanCall ==
  /\ op.pos = "idle"
  /\ Len(hist) < MaxOps
  /\ hist # <<>> => hist[Len(hist)].ret.kind # "Panic"

TransportErr == Ret("Err", 0, "Transport")

\* WifiNina::connect, lib.rs:50-74, up to its first exchange.  connect takes
\* &self and may be called again while a Socket lives; the Socket it would
\* make is another object with a buffer of its own, and sock follows the
\* first one made.
\* the record of a connect holds the version of the remote address
IpVersion(is_ipv4) == IF is_ipv4 THEN 4 ELSE 6

\* the check of the address, lib.rs:55-57, and get_socket().await, lib.rs:60
ConnectUnchecked(s, o, is_ipv4) == Suspended(s, [o EXCEPT !.pos = "get_socket"])

ConnectEntry(s, o, is_ipv4) ==
  IF is_ipv4
    THEN Suspended(s, [o EXCEPT !.pos = "get_socket"])
    ELSE Finished(s, o, Ret("Err", 0, "NotIpv4"))

Connect ==
  /\ CanCall
  /\ ~sock.open
  /\ \E is_ipv4 \in BOOLEAN :
       Settle(ConnectEntry(sock, NewOp("connect", <<>>), is_ipv4),
              Called(hist, HistEntry("connect", IpVersion(is_ipv4), sock)))
  /\ UNCHANGED <<issued, bus_vars, codec, poll, boot>>

\* get_socket returns (handle.rs:654-664, lib.rs:60)
GetSocketReply ==
  /\ op.pos = "get_socket"
  /\ \/ /\ Settle(Finished(sock, op, TransportErr), Replied(hist, Reply("Err", 0)))
        /\ UNCHANGED issued
     \/ \E id \in {NextSocketId(issued)} :
          /\ Settle(Suspended(sock, [op EXCEPT !.pos = "start_client", !.socket = id]),
                    Replied(hist, Reply("Ok", id)))
          /\ issued' = issued \cup {id}
  /\ UNCHANGED <<bus_vars, codec, poll, boot>>

\* start_client_by_addr returns (handle.rs:493-526, lib.rs:63-73)
StartClientOkAny(status) == TRUE
StartClientOk(status) == status = 1

StartClientReply ==
  /\ op.pos = "start_client"
  /\ \/ Settle(Finished(sock, op, TransportErr), Replied(hist, Reply("Err", 0)))
     \/ \E status \in {0, 1} :
          Settle(IF StartClientOk(status)
                   THEN Finished(NewSocket(op.socket), op, Ret("Ok", 0, "none"))
                   ELSE Finished(sock, op, Ret("Err", 0, "StartClientByIp")),
                 Replied(hist, Reply("Ok", status)))
  /\ UNCHANGED <<issued, bus_vars, codec, poll, boot>>

\* Socket::write, lib.rs:248-273, up to its first exchange or its return
Write ==
  /\ CanCall
  /\ sock.open
  /\ \E n \in WriteSizes :
       LET w == Len(hist) + 1
           h == Called(hist, HistEntry("write", n, sock))
           o == NewOp("write", CallerBuf(w, n))
       IN IF sock.cursor <= RunsLen(sock.buffer)
            THEN Settle(WriteFill(sock, o), h)
            ELSE Settle(Finished(sock, o, Ret("Panic", 0, "assert")), h)
  /\ UNCHANGED <<issued, bus_vars, codec, poll, boot>>

\* Socket::flush, lib.rs:275-301, up to its first exchange or its return
Flush ==
  /\ CanCall
  /\ sock.open
  /\ Settle(FlushStart(sock, NewOp("flush", <<>>)),
            Called(hist, HistEntry("flush", 0, sock)))
  /\ UNCHANGED <<issued, bus_vars, codec, poll, boot>>

\* the tranche of the pending SendDataTcp is the one the round before it
\* carried, of which the device reported nothing sent
Resent(e) ==
  LET k == Len(e.cmds) IN
  /\ k >= 3
  /\ e.cmds[k - 2].cmd = SendDataTcpCmd
  /\ e.cmds[k - 2].payload = e.cmds[k].payload
  /\ e.cmds[k - 2].reply = Reply("Ok", 0)

\* the counts a SendDataTcp reply can carry (a u16 the device chooses,
\* handle.rs:626): the whole tranche; while the call has issued fewer than
\* MaxCmds commands, one byte less, and in a flush the caller asked for, none
\* or one byte more; and none again after none
SentValues(to_send) ==
  LET e == hist[Len(hist)] IN
  {to_send}
    \cup (IF Len(e.cmds) < MaxCmds
            THEN ({to_send - 1} \cup (IF e.name = "flush" THEN {0, to_send + 1} ELSE {}))
                   \cap (0..U16_MAX)
            ELSE {})
    \cup (IF Resent(e) THEN {0} ELSE {})

\* the record of a call keeps one copy of a round (a SendDataTcp and its
\* DataSentTcp, with their replies) that repeats the round before it
Repeats(e) ==
  LET k == Len(e.cmds) IN
  /\ k >= 4
  /\ e.cmds[k - 1].cmd = SendDataTcpCmd
  /\ e.cmds[k - 3] = e.cmds[k - 1]
  /\ e.cmds[k - 2] = e.cmds[k]
Recorded(h) ==
  LET e == h[Len(h)] IN
  IF Repeats(e)
    THEN [h EXCEPT ![Len(h)].cmds = SubSeq(@, 1, Len(@) - 2), ![Len(h)].sends = @ - 1]
    ELSE h

\* send_data returns (handle.rs:611-629, lib.rs:284-292)
SendDataReply ==
  /\ op.pos = "send_data"
  /\ \/ Settle(Finished(sock, op, TransportErr), Replied(hist, Reply("Err", 0)))
     \/ \E sent \in SentValues(op.to_send) :
          Settle(Suspended(sock, [op EXCEPT !.pos = "check_data_sent", !.sent = sent]),
                 Replied(hist, Reply("Ok", sent)))
  /\ UNCHANGED <<issued, bus_vars, codec, poll, boot>>

\* flush_cursor += sent, lib.rs:294
AdvanceOneMore(flush_cursor, sent) == flush_cursor + sent + 1
Advance(flush_cursor, sent) == flush_cursor + sent

\* check_data_sent returns (handle.rs:631-652, lib.rs:292-294)
DataSentAny(status) == TRUE
DataSent(status) == status = 1

CheckDataSentReply ==
  /\ op.pos = "check_data_sent"
  /\ \/ Settle(Finished(sock, op, TransportErr), Replied(hist, Reply("Err", 0)))
     \/ \E status \in {0, 1} :
          Settle(IF DataSent(status)
                   THEN FlushLoop(sock, [op EXCEPT !.flush_cursor = Advance(@, op.sent)])
                   ELSE Finished(sock, op, Ret("Err", 0, "CheckDataSent")),
                 Recorded(Replied(hist, Reply("Ok", status))))
  /\ UNCHANGED <<issued, bus_vars, codec, poll, boot>>

\* u16::try_from(buf.len()), handle.rs:597
FitsU16(len) == len <= U16_MAX

\* Socket::read, lib.rs:238-242, and get_data_buf up to its exchange
Read ==
  /\ CanCall
  /\ sock.open
  /\ \E len \in ReadSizes :
       LET w == Len(hist) + 1
           h == Called(hist, HistEntry("read", len, sock))
           o == NewOp("read", CallerBuf(w, len))
       IN IF FitsU16(len)
            THEN Settle(Suspended(sock, [o EXCEPT !.pos = "get_data_buf"]), h)
            ELSE Settle(Finished(sock, o, Ret("Panic", 0, "unwrap")), h)
  /\ UNCHANGED <<issued, bus_vars, codec, poll, boot>>

\* the lengths the data slot of a GetDatabufTcp reply can have
ReplyLens(len) == {0, len - 1, len, len + 1} \cap (0..U16_MAX)

\* get_data_buf returns (handle.rs:601-608): the slice parser asserts that
\* the data fits the caller's buffer (param.rs:187); Ok carries
\* recv_params.0.len(), the length of the caller's buffer
GetDataBufReply ==
  /\ op.pos = "get_data_buf"
  /\ \/ Settle(Finished(sock, op, TransportErr), Replied(hist, Reply("Err", 0)))
     \/ \E m \in ReplyLens(RunsLen(op.data)) :
          Settle(IF m <= RunsLen(op.data)
                   THEN Finished(sock, op, Ret("Ok", RunsLen(op.data), "none"))
                   ELSE Finished(sock, op, Ret("Panic", 0, "assert")),
                 Replied(hist, Reply("Ok", m)))
  /\ UNCHANGED <<issued, bus_vars, codec, poll, boot>>

\* Socket::state, lib.rs:224-226, up to its exchange
State ==
  /\ CanCall
  /\ sock.open
  /\ Settle(Suspended(sock, [NewOp("state", <<>>) EXCEPT !.pos = "get_client_state"]),
            Called(hist, HistEntry("state", 0, sock)))
  /\ UNCHANGED <<issued, bus_vars, codec, poll, boot>>

\* get_client_state returns (handle.rs:551-569); valid: the byte is a TcpState
GetClientStateReply ==
  /\ op.pos = "get_client_state"
  /\ \/ Settle(Finished(sock, op, TransportErr), Replied(hist, Reply("Err", 0)))
     \/ \E valid \in BOOLEAN :
          Settle(IF valid THEN Finished(sock, op, Ret("Ok", 4, "none"))
                 ELSE Finished(sock, op, Ret("Err", 0, "BadTcpState")),
                 Replied(hist, Reply("Ok", IF valid THEN 4 ELSE 255)))
  /\ UNCHANGED <<issued, bus_vars, codec, poll, boot>>

\* the caller drops the future of a call that is suspended in an exchange
Dropped ==
  /\ op.pos \notin {"idle", "run", "done"}
  /\ Settle(Finished(sock, op, Ret("Cancelled", 0, "none")),
            Replied(hist, Reply("Dropped", 0)))
  /\ UNCHANGED <<issued, bus_vars, codec, poll, boot>>

\* the Socket goes out of scope.  Socket has no Drop implementation and no
\* method that closes it (lib.rs:214-302), and nothing calls stop_client
\* (handle.rs:528-549): the value is forgotten and no command is issued.
\* The record holds the id the Socket had.
DropSocket ==
  /\ CanCall
  /\ sock.open
  /\ Settle(Finished(NoSocket, NewOp("drop", <<>>), Ret("Ok", 0, "none")),
            Called(hist, HistEntry("drop", sock.socket, sock)))
  /\ UNCHANGED <<issued, bus_vars, codec, poll, boot>>

SocketNext ==
  \/ Connect
  \/ GetSocketReply
  \/ StartClientReply
  \/ Write
  \/ Flush
  \/ SendDataReply
  \/ CheckDataSentReply
  \/ Read
  \/ GetDataBufReply
  \/ State
  \/ GetClientStateReply
  \/ Dropped
  \/ DropSocket

\* the level of the busy pin plays no part above the exchanges
SocketInit == Init /\ busy = "high"

SocketSpec == SocketInit /\ [][SocketNext]_vars

\* the socket layer with a device that answers every SendDataTcp and every
\* DataSentTcp: handle_cmd returns once the reply is in (spi.rs:147-209)
SocketFairSpec ==
  /\ SocketInit
  /\ [][SocketNext]_vars
  /\ WF_vars(SendDataReply)
  /\ WF_vars(CheckDataSentReply)

(***************************************************************************)
(* Parameter blocks through the codec.  The blocks drawn are those of the  *)
(* tests of params.rs and param.rs and of the command methods, with the    *)
(* byte values a frame check could mistake and run lengths on both sides   *)
(* of what a one-byte length prefix holds.                                 *)
(***************************************************************************)
\* a run of n bytes that differ from their neighbours
Bytes(n) == [i \in 1..n |-> i % (U8_MAX + 1)]

ByteSamples == {0, 1, START_CMD, END_CMD, U8_MAX}
WordSamples == {0, 1, U8_MAX + 1, U16_MAX}
\* 32-bit values with four distinct bytes and with every low bit set
LongSamples == {0, 1, U16_MAX + 1, BEValue(Bytes(4)),
                BEValue(<<U8_MAX \div 2, U8_MAX, U8_MAX, U8_MAX>>)}
RunLens == {0, 1, 2, U8_MAX - 1, U8_MAX, U8_MAX + 1}

\* the destination a caller builds to receive a parameter like p: a zero
\* scalar, an empty vector of the same capacity, a slice of no length
Fresh(p) ==
  CASE p.kind \in {"vec", "nullterm"} -> [p EXCEPT !.b = <<>>]
    [] p.kind = "slice" -> Slice(<<>>)
    [] OTHER -> [p EXCEPT !.n = 0]

FreshAll(ps) == [i \in 1..Len(ps) |-> Fresh(ps[i])]

\* a zeroed slice of the length of the run to receive
Sized(ps) == [i \in 1..Len(ps) |-> IF ps[i].kind = "slice" THEN Slice(Zeros(Len(ps[i].b)))
                                   ELSE Fresh(ps[i])]

ParamSamples ==
  {U8(v) : v \in ByteSamples}
  \cup {ScalarLE16(v) : v \in WordSamples} \cup {ScalarBE16(v) : v \in WordSamples}
  \cup {ScalarLE32(v) : v \in LongSamples} \cup {ScalarBE32(v) : v \in LongSamples}
  \cup {Slice(Bytes(n)) : n \in RunLens}
  \cup {ByteVec(Bytes(n), n) : n \in RunLens}
  \cup {NullTerminatedVec(Bytes(n), n) : n \in RunLens}

FiveTuples ==
  {<<U8(b1), U8(b2), U8(b3), U8(b4), U8(b5)>> :
     b1 \in ByteSamples, b2 \in ByteSamples, b3 \in ByteSamples,
     b4 \in ByteSamples, b5 \in ByteSamples}

\* one parameter of each family, for the tuples of arity 0 to 5
Mixed ==
  <<U8(END_CMD), ScalarBE16(U8_MAX + 1), ByteVec(Bytes(2), 2),
    NullTerminatedVec(Bytes(1), 1), ScalarLE32(U16_MAX + 1)>>

Tuples ==
  FiveTuples \cup {<<p>> : p \in ParamSamples}
  \cup {SubSeq(Mixed, 1, k) : k \in 0..Len(Mixed)}

\* lists of big-endian 32-bit scalars, as params.rs:185-203 builds them
Lists == {[i \in 1..k |-> ScalarBE32(i * (U16_MAX + 1) + i)] : k \in 0..2}

\* what a device can put in the one slot of a reply parsed into a
\* NullTerminated vector: every short length, the inner bytes, a last byte
SlotStreams ==
  {<<1, len>> \o Bytes(len - 1) \o <<t>> : len \in 1..U8_MAX, t \in {0, 1}}
  \cup {<<1, 0>> \o <<t>> : t \in {0, 1}}
  \cup {<<1, 2, 1>>}

CodecInputs ==
  {TupleBlock(v, long, FreshAll(v)) : v \in Tuples, long \in BOOLEAN}
  \cup {TupleBlock(<<p>>, long, Sized(<<p>>)) : p \in ParamSamples, long \in BOOLEAN}
  \cup {ListBlock(Len(v) + spare, ScalarBE32(0), v, long) :
          spare \in {0, 1}, v \in Lists, long \in BOOLEAN}
  \cup {Received(s, FALSE, d) :
          s \in SlotStreams,
          d \in {get_firmware_version.recv, <<NullTerminatedVec(<<>>, U8_MAX)>>}}

\* SerializeParams::serialize into the transporter; a panic keeps what was
\* written before it
CodecSerialize ==
  /\ codec.phase = "value"
  /\ LET s == IF codec.list THEN SerializeList(codec.value, codec.long)
              ELSE SerializeParams(codec.value, codec.long)
     IN codec' = [codec EXCEPT !.phase = IF Panics(s) THEN "panic" ELSE "wire",
                               !.stream = BeforePanic(s)]
  /\ UNCHANGED <<bus_vars, sock_vars, poll, boot>>

\* the items a list has pushed once the parser stands at pr, params.rs:129
Pushed(pr) == IF pr.stage = "len" THEN pr.slot - 1 ELSE pr.slot

\* ParseParams::parse fed the next byte; a list reads its item count and
\* parses that many Default items, pushing each (params.rs:124-132)
CodecParse ==
  /\ codec.phase = "wire"
  /\ codec.pos < Len(codec.stream)
  /\ LET byte == codec.stream[codec.pos + 1]
         rp == IF codec.list /\ codec.pr.stage = "count"
                 THEN [i \in 1..byte |-> codec.item] ELSE codec.dest
         st == ParseByte(codec.pr, rp, <<>>, 0, codec.long, byte)
         full == codec.list /\ st.pr.stage \in {"len", "end"} /\ Pushed(st.pr) > codec.cap
     IN codec' = [codec EXCEPT
                    !.phase = IF st.st = "panic" \/ full THEN "panic"
                              ELSE IF st.pr.stage = "end" THEN "parsed" ELSE "wire",
                    !.dest = st.recv, !.pr = st.pr, !.pos = codec.pos + 1]
  /\ UNCHANGED <<bus_vars, sock_vars, poll, boot>>

\* Transporter::read with nothing left to hand back: the parse returns the
\* transporter's error
CodecStarved ==
  /\ codec.phase = "wire"
  /\ codec.pos >= Len(codec.stream)
  /\ codec' = [codec EXCEPT !.phase = "err"]
  /\ UNCHANGED <<bus_vars, sock_vars, poll, boot>>

CodecNext ==
  \/ CodecSerialize
  \/ CodecParse
  \/ CodecStarved

CodecInit ==
  ProgramInit /\ busy = "high" /\ codec \in CodecInputs /\ poll = NoPoll /\ boot = Started

CodecSpec == CodecInit /\ [][CodecNext]_vars

(***************************************************************************)
(* Helpers of the properties.                                              *)
(***************************************************************************)
\* a task between the acquisition of the transport lock and the end of its
\* exchange
InExchange(t) == pc[t] \in {"spi_lock", "wait_low", "wait_high", "write", "xfer",
                            "bus_flush", "refill", "read"}
\* a task whose transaction is open or being opened on the bus
OnBus(t) == pc[t] \in {"wait_low", "wait_high", "write", "xfer", "bus_flush",
                       "refill", "read"}
\* a task with a transfer or a bus flush in flight
Transferring(t) == pc[t] \in {"xfer", "bus_flush", "refill"}

RECURSIVE Flat(_)
Flat(ss) == IF ss = <<>> THEN <<>> ELSE Head(ss) \o Flat(Tail(ss))

CountOf(s, e) == Cardinality({i \in DOMAIN s : s[i] = e})

OpenEvents == <<"busy_low", "cs_low", "busy_high">>

\* The order of bus events of one task: 0 before a transaction, 1 after
\* busy-low, 2 after CS asserted, 3 after busy-high (transfers allowed),
\* back to 0 when CS is deasserted; -1 when the order is broken.
RECURSIVE BusOrder(_, _)
BusOrder(s, q) ==
  IF s = <<>> \/ q = -1 THEN q
  ELSE LET e == Head(s)
           n == CASE q = 0 /\ e = "busy_low" -> 1
                  [] q = 1 /\ e = "cs_low" -> 2
                  [] q = 2 /\ e = "busy_high" -> 3
                  [] q = 3 /\ e \in {"xfer", "bus_flush"} -> 3
                  [] q = 3 /\ e = "cs_high" -> 0
                  [] OTHER -> -1
       IN BusOrder(Tail(s), n)

\* A trace of exactly two transactions: the write transaction (bursts, each
\* a transfer and a bus flush), CS deasserted, then the read transaction
\* (transfers only) with its own handshake, CS deasserted.
TwoTransactions(s) ==
  \E k \in 1..Len(s) :
    /\ s[k] = "cs_high"
    /\ \A i \in 1..(k - 1) : s[i] # "cs_high"
    /\ k >= 6
    /\ SubSeq(s, 1, 3) = OpenEvents
    /\ \A i \in 4..(k - 1) : s[i] = IF i % 2 = 0 THEN "xfer" ELSE "bus_flush"
    /\ s[k - 1] = "bus_flush"
    /\ Len(s) >= k + 5
    /\ SubSeq(s, k + 1, k + 3) = OpenEvents
    /\ \A i \in (k + 4)..(Len(s) - 1) : s[i] = "xfer"
    /\ s[Len(s)] = "cs_high"

C2_TwoTransactions ==
  \A t \in Tasks :
    /\ (pc[t] = "done" /\ result[t].kind = "Ok") =>
         /\ TwoTransactions(trace[t])
         /\ CountOf(trace[t], "cs_low") = 2
         /\ cs = "high"
    /\ (tx[t] = "recv" /\ pc[t] \in {"spi_lock", "wait_low"}) =>
         /\ cs = "high"
         /\ trace[t][Len(trace[t])] = "cs_high"
    /\ (pc[t] = "done" /\ result[t].kind \in {"Err", "Panic"} /\ result[t].tx = "send") =>
         /\ CountOf(trace[t], "busy_low") <= 1
         /\ CountOf(trace[t], "cs_low") <= 1
         /\ rx[t] = <<>>

\* a successful exchange whose request took two bursts
C2_Witness ==
  \E t \in Tasks : pc[t] = "done" /\ result[t].kind = "Ok" /\ Len(wire[t]) = 2

(***************************************************************************)
(* C3.  In every transaction the bus events come in the order busy-low,    *)
(* CS asserted, busy-high, transfers, CS deasserted; a transfer is in      *)
(* flight only with CS asserted and after busy-high was observed in its    *)
(* transaction.                                                            *)
(***************************************************************************)
C3_TransactionOrder ==
  \A t \in Tasks :
    /\ BusOrder(trace[t], 0) # -1
    /\ Transferring(t) => (cs = "low" /\ BusOrder(trace[t], 0) = 3)

\* a read transaction that was opened, transferred and closed
C3_Witness ==
  \E t \in Tasks :
    /\ pc[t] = "done" /\ result[t].tx = "recv" /\ rx[t] # <<>>
    /\ BusOrder(trace[t], 0) = 0

(***************************************************************************)
(* C4.  Whenever a transaction ends with an error (the wait for busy-high  *)
(* after CS was asserted fails, a transfer or a bus flush fails, the reply *)
(* is a protocol error), CS is deasserted when the error reaches the       *)
(* caller of handle_cmd.                                                   *)
(***************************************************************************)
AfterCsAsserted == {"wait_high", "xfer", "bus_flush", "refill", "first1", "end"}

C4_CsReleasedOnError ==
  \A t \in Tasks :
    (pc[t] = "done" /\ result[t].kind = "Err" /\ result[t].at \in AfterCsAsserted)
      => cs = "high"

(***************************************************************************)
(* C5.  If the future of an exchange is dropped at a suspension point      *)
(* after CS was asserted (the wait for busy-high, a transfer, a bus        *)
(* flush), CS is deasserted on the drop path.                              *)
(***************************************************************************)
C5_CsReleasedOnCancel ==
  \A t \in Tasks :
    (pc[t] = "done" /\ result[t].kind = "Cancelled"
       /\ result[t].at \in {"wait_high", "xfer", "bus_flush", "refill"})
      => cs = "high"

(***************************************************************************)
(* C6.  After an exchange failed with a protocol error in its read         *)
(* transaction (ErrorResponse, UnexpectedReplyByte), CS is deasserted and  *)
(* both mutexes are free: the lock of the next exchange resolves.          *)
(***************************************************************************)
ProtocolError(r) ==
  r.kind = "Err" /\ r.err.e \in {"ErrorResponse", "UnexpectedReplyByte"}

C6_RecoverableAfterProtocolError ==
  \A t \in Tasks :
    (pc[t] = "done" /\ ProtocolError(result[t])) =>
      /\ result[t].tx = "recv"
      /\ cs = "high"
      /\ TransportLockFree(transport_owner)
      /\ spi_owner = NoTask
      /\ ~trans[t].live
      /\ trace[t][Len(trace[t])] = "cs_high"

\* an ErrorResponse has reached its caller while another task waits for the lock
C6_Witness ==
  /\ pc["t1"] = "done" /\ result["t1"].err = ErrorResponse
  /\ pc["t2"] = "lock"

(***************************************************************************)
(* C7.  The bursts of a write transaction, concatenated, are 0xE0, the     *)
(* opcode with bit 7 cleared, the serialized parameter block, 0xEE, then   *)
(* only 0xFF padding, and the total length is a multiple of 4; before the  *)
(* closing flush the bursts are whole 8-byte pieces of the frame, so no    *)
(* padding byte comes before 0xEE.                                         *)
(***************************************************************************)
IsPrefix(a, b) == Len(a) <= Len(b) /\ SubSeq(b, 1, Len(a)) = a

ExpectedFrame(c) ==
  <<START_CMD, c.cmd % 128>> \o SerializeParams(c.send, c.long_send) \o <<END_CMD>>

\* the write transaction of t has sent its closing burst
WriteClosed(t) ==
  \/ tx[t] = "recv"
  \/ tx[t] = "send" /\ pc[t] = "bus_flush" /\ flush_ret[t] = "close"

C7_WriteFrame ==
  \A t \in Tasks :
    LET sent == Flat(wire[t])
        frame == ExpectedFrame(call[t])
    IN /\ WriteClosed(t) =>
            /\ IsPrefix(frame, sent)
            /\ \A i \in (Len(frame) + 1)..Len(sent) : sent[i] = PAD_BYTE
            /\ Len(sent) - Len(frame) < PAD_MULTIPLE
            /\ Len(sent) % PAD_MULTIPLE = 0
       /\ (tx[t] = "send" /\ InExchange(t) /\ ~WriteClosed(t)) =>
            /\ IsPrefix(sent, frame)
            /\ \A i \in DOMAIN wire[t] : Len(wire[t][i]) = SEND_CAPACITY

\* a frame of 13 bytes went out as a burst of 8 and a burst of 5 padded to 8
C7_Witness ==
  \E t \in Tasks :
    /\ tx[t] = "recv" /\ Len(wire[t]) = 2
    /\ Len(ExpectedFrame(call[t])) = 13
    /\ Len(Flat(wire[t])) = 16

(***************************************************************************)
(* C8.  A reply whose first byte is 0xEF yields ErrorResponse whatever     *)
(* follows, and a reply whose first byte is neither 0xE0 nor 0xEF yields   *)
(* UnexpectedReplyByte(that byte, 0); in both cases only the two header    *)
(* bytes were read and recv_params is as the caller passed it.             *)
(***************************************************************************)
HeaderRead(t) == Len(first[t]) = 2

C8_FirstByteErrors ==
  \A t \in Tasks :
    (HeaderRead(t) /\ first[t][1] # START_CMD) =>
      /\ pc[t] = "done"
      /\ result[t].kind = "Err"
      /\ result[t].err = IF first[t][1] = ERR_CMD THEN ErrorResponse
                         ELSE UnexpectedReplyByte(first[t][1], 0)
      /\ recv_params[t] = call[t].recv
      /\ rx[t] = first[t]

\* a reply that began 0xEF and went on with the right opcode echo
C8_Witness ==
  \E t \in Tasks :
    /\ pc[t] = "done"
    /\ first[t] = <<ERR_CMD, SetReplyFlag(call[t].cmd)>>
    /\ result[t].err = ErrorResponse

(***************************************************************************)
(* C9.  A reply whose first byte is 0xE0 and whose second byte is not the  *)
(* opcode with bit 7 set yields UnexpectedReplyByte(second byte, 1), and   *)
(* recv_params is as the caller passed it.                                 *)
(***************************************************************************)
C9_EchoMismatch ==
  \A t \in Tasks :
    (HeaderRead(t) /\ first[t][1] = START_CMD
       /\ first[t][2] # SetReplyFlag(call[t].cmd)) =>
      /\ pc[t] = "done"
      /\ result[t].kind = "Err"
      /\ result[t].err = UnexpectedReplyByte(first[t][2], 1)
      /\ recv_params[t] = call[t].recv
      /\ rx[t] = first[t]

\* a reply that began 0xE0 0xEE to a call with a receive parameter
C9_Witness ==
  \E t \in Tasks :
    /\ pc[t] = "done"
    /\ first[t] = <<START_CMD, END_CMD>>
    /\ result[t].err = UnexpectedReplyByte(END_CMD, 1)
    /\ call[t].recv # <<>>

(***************************************************************************)
(* C10.  The width of the length prefixes is selected by the command       *)
(* method: send_data (0x44) sends 2-byte big-endian prefixes and reads     *)
(* 1-byte ones, get_data_buf (0x45) uses 2-byte prefixes in both           *)
(* directions, and every other exchange, those of 0x50, 0x51, 0x52 and of  *)
(* the opcodes below 0x40 included, uses 1-byte prefixes in both.          *)
(***************************************************************************)
\* the length of n length-delimited slots with prefixes of w bytes at the
\* start of bs, or -1 when bs is too short for them
RECURSIVE SlotsLen(_, _, _)
SlotsLen(bs, n, w) ==
  IF n = 0 THEN 0
  ELSE IF Len(bs) < w THEN -1
  ELSE LET l == BEValue(SubSeq(bs, 1, w)) IN
       IF Len(bs) < w + l THEN -1
       ELSE LET r == SlotsLen(SubSeq(bs, w + l + 1, Len(bs)), n - 1, w) IN
            IF r = -1 THEN -1 ELSE w + l + r

\* the request of t, once sent, has slots with prefixes of ws bytes
RequestWidth(t, ws) ==
  WriteClosed(t) =>
    LET sent == Flat(wire[t])
        body == SubSeq(sent, 4, Len(sent))
        l == SlotsLen(body, sent[3], ws)
    IN /\ l # -1
       /\ Len(body) > l
       /\ body[l + 1] = END_CMD
       /\ \A i \in (l + 2)..Len(body) : body[i] = PAD_BYTE

\* the reply that t accepted has slots with prefixes of wr bytes
ReplyWidth(t, wr) ==
  (pc[t] = "done" /\ result[t].kind = "Ok") =>
    LET body == SubSeq(rx[t], 4, Len(rx[t]))
        l == SlotsLen(body, rx[t][3], wr)
    IN l # -1 /\ Len(body) = l + 1

RequestLong == {SendDataTcpCmd, GetDatabufTcpCmd}
ReplyLong == {GetDatabufTcpCmd}

C10_WidthPerCommand ==
  \A t \in Tasks :
    call[t] # NoCall =>
      /\ RequestWidth(t, IF call[t].cmd \in RequestLong THEN 2 ELSE 1)
      /\ ReplyWidth(t, IF call[t].cmd \in ReplyLong THEN 2 ELSE 1)

\* the claim as the specification states it: the width follows the opcode class
C10_WidthPerOpcodeClass ==
  \A t \in Tasks :
    call[t] # NoCall =>
      /\ RequestWidth(t, IF call[t].cmd >= 64 THEN 2 ELSE 1)
      /\ ReplyWidth(t, IF call[t].cmd >= 64 THEN 2 ELSE 1)

\* send_data was answered: its request had 2-byte prefixes, its reply a
\* 1-byte one
C10_Witness ==
  \E t \in Tasks :
    /\ pc[t] = "done" /\ result[t].kind = "Ok"
    /\ call[t].cmd = SendDataTcpCmd /\ Len(call[t].send[2].b) = 1
    /\ SubSeq(Flat(wire[t]), 4, 9) = <<0, 1, 0, 0, 1, PAD_BYTE>>
    /\ SubSeq(rx[t], 3, 4) = <<1, 2>> /\ Len(rx[t]) = 7

(***************************************************************************)
(* C17.  Socket read returns the number of bytes the coprocessor returned  *)
(* in its GetDatabufTcp reply, the length of the reply's data slot, which  *)
(* may be smaller than the length of the caller's buffer.                  *)
(***************************************************************************)
\* the length that the 2-byte prefix of the reply's data slot announces
ReplyDataLen(t) == BEValue(SubSeq(rx[t], 4, 5))

C17_ReadReturnsReceived ==
  \A t \in Tasks :
    (pc[t] = "done" /\ result[t].kind = "Ok" /\ call[t].cmd = GetDatabufTcpCmd) =>
      get_data_buf_ret(recv_params[t]) = ReplyDataLen(t)

(***************************************************************************)
(* The socket layer, under SocketSpec.                                     *)
(***************************************************************************)
LastCall == hist[Len(hist)]
PrevCall == hist[Len(hist) - 1]

\* C11: whatever calls of write and flush were made, and whether they
\* returned Ok or an error or were dropped, the cursor of the socket is within
\* 0..BUFFER_CAPACITY and the buffer keeps its length; the assertion that
\* opens write never fails, and the slice that flush sends lies within the
\* buffer.
C11_CursorWithinCapacity ==
  /\ sock.open =>
       /\ 0 <= sock.cursor
       /\ sock.cursor <= BUFFER_CAPACITY
       /\ RunsLen(sock.buffer) = BUFFER_CAPACITY
  /\ \A i \in DOMAIN hist :
       hist[i].name \in {"write", "flush"} => hist[i].ret.kind # "Panic"
  /\ op.pos = "send_data" =>
       /\ 0 <= op.flush_cursor
       /\ op.flush_cursor + op.to_send <= RunsLen(sock.buffer)

\* a write that failed left the buffer full, and the next write, entered with
\* the cursor at BUFFER_CAPACITY, passed the assertion and returned Ok
C11_Witness ==
  /\ Len(hist) >= 2
  /\ PrevCall.name = "write" /\ PrevCall.ret.kind = "Err"
  /\ LastCall.name = "write" /\ LastCall.cursor0 = BUFFER_CAPACITY
  /\ LastCall.n > 0 /\ LastCall.ret.kind = "Ok"

\* a write that found the buffer empty and returned Ok, then a flush that
\* returned Ok, the coprocessor having reported every tranche sent
WroteThenFlushed ==
  /\ Len(hist) >= 2
  /\ PrevCall.name = "write" /\ PrevCall.cursor0 = 0
  /\ PrevCall.ret.kind = "Ok" /\ PrevCall.all_sent
  /\ LastCall.name = "flush" /\ LastCall.ret.kind = "Ok" /\ LastCall.all_sent

\* the write sent nothing, and the commands of the flush are one SendDataTcp
\* that carries the bytes of the write, then one DataSentTcp
OneSendOfWrite ==
  /\ PrevCall.sends = 0
  /\ Len(LastCall.cmds) = 2
  /\ LastCall.cmds[1].cmd = SendDataTcpCmd
  /\ LastCall.cmds[1].n = PrevCall.n
  /\ LastCall.cmds[1].payload = CallerBuf(Len(hist) - 1, PrevCall.n)
  /\ LastCall.cmds[2].cmd = DataSentTcpCmd

\* C12 as written: from an empty write buffer, for every N <= capacity, a
\* write of N bytes and then a flush produce exactly one SendDataTcp whose
\* payload is those N bytes, and one DataSentTcp.
C12_WriteThenFlush ==
  (WroteThenFlushed /\ PrevCall.n <= BUFFER_CAPACITY) => OneSendOfWrite

\* C12, amended: the same for every N with 1 <= N <= capacity; after a
\* write of no bytes the flush finds the cursor at 0 and sends nothing.
C12_WriteThenFlushNonEmpty ==
  /\ (WroteThenFlushed /\ 1 <= PrevCall.n /\ PrevCall.n <= BUFFER_CAPACITY)
       => OneSendOfWrite
  /\ (WroteThenFlushed /\ PrevCall.n = 0)
       => (PrevCall.sends = 0 /\ LastCall.cmds = <<>>)

\* a write of a whole buffer, flushed in one SendDataTcp
C12_Witness ==
  WroteThenFlushed /\ PrevCall.n = BUFFER_CAPACITY /\ OneSendOfWrite

CeilDiv(n, d) == (n + d - 1) \div d

\* the SendDataTcp commands of a call, in order
Sends(e) == SelectSeq(e.cmds, LAMBDA c : c.cmd = SendDataTcpCmd)

\* the last call is a write of more than BUFFER_CAPACITY bytes that found the
\* buffer empty and returned Ok, every tranche reported sent
WroteLong ==
  /\ hist # <<>>
  /\ LastCall.name = "write" /\ LastCall.cursor0 = 0
  /\ LastCall.n > BUFFER_CAPACITY
  /\ LastCall.ret.kind = "Ok" /\ LastCall.all_sent

\* C13 as written: from an empty write buffer, a write of N > capacity bytes
\* produces ceil(N/capacity) SendDataTcp commands, each of at most capacity
\* bytes.
C13_WriteSendsCeil ==
  WroteLong =>
    /\ LastCall.sends = CeilDiv(LastCall.n, BUFFER_CAPACITY)
    /\ \A i \in DOMAIN LastCall.cmds :
         LastCall.cmds[i].cmd = SendDataTcpCmd => LastCall.cmds[i].n <= BUFFER_CAPACITY

\* C13, amended: the write itself produces ceil(N/capacity) - 1 SendDataTcp
\* commands, the k-th carrying the k-th capacity bytes of the caller's data,
\* and leaves the rest, N - (ceil(N/capacity) - 1) * capacity bytes, in the
\* buffer; the flush that follows sends them in one more SendDataTcp, which
\* makes ceil(N/capacity) in all.  No SendDataTcp carries more than capacity
\* bytes.
C13_WriteThenFlushSendsCeil ==
  /\ WroteLong =>
       /\ LastCall.sends = CeilDiv(LastCall.n, BUFFER_CAPACITY) - 1
       /\ Len(Sends(LastCall)) = LastCall.sends
       /\ \A k \in DOMAIN Sends(LastCall) :
            Sends(LastCall)[k].payload =
              <<Run(Len(hist), (k - 1) * BUFFER_CAPACITY, BUFFER_CAPACITY)>>
       /\ sock.cursor = LastCall.n - LastCall.sends * BUFFER_CAPACITY
  /\ (WroteThenFlushed /\ PrevCall.n > BUFFER_CAPACITY) =>
       /\ PrevCall.sends + LastCall.sends = CeilDiv(PrevCall.n, BUFFER_CAPACITY)
       /\ LastCall.sends = 1
       /\ Sends(LastCall)[1].n = PrevCall.n - PrevCall.sends * BUFFER_CAPACITY
  /\ hist # <<>> =>
       \A i \in DOMAIN LastCall.cmds :
         LastCall.cmds[i].cmd = SendDataTcpCmd => LastCall.cmds[i].n <= BUFFER_CAPACITY

\* a write of two buffers and a byte sent two tranches, and the flush the byte
C13_Witness ==
  /\ WroteThenFlushed
  /\ PrevCall.n = 2 * BUFFER_CAPACITY + 1
  /\ PrevCall.sends = 2
  /\ LastCall.sends = 1
  /\ Sends(LastCall)[1].n = 1

\* C14: in the commands of a call, which are those of its flushes, every
\* SendDataTcp carries at most 65535 bytes, is sent with 2-byte parameter
\* lengths, and is followed at once by a DataSentTcp for the same socket id
\* unless it failed, which ends the call; a DataSentTcp answered with a
\* status other than 1 is the last command of the call, which returns the
\* CheckDataSent error.
C14_SendThenCheck ==
  hist # <<>> =>
    \A i \in DOMAIN LastCall.cmds :
      LET c == LastCall.cmds[i] IN
      /\ c.cmd = SendDataTcpCmd =>
           /\ c.n <= U16_MAX
           /\ RunsLen(c.payload) = c.n
           /\ c.long_send
           /\ c.socket = sock.socket
           /\ i < Len(LastCall.cmds) =>
                /\ c.reply.kind = "Ok"
                /\ LastCall.cmds[i + 1].cmd = DataSentTcpCmd
                /\ LastCall.cmds[i + 1].socket = c.socket
           /\ c.reply.kind \in {"Err", "Dropped"} =>
                (i = Len(LastCall.cmds) /\ LastCall.ret.kind \in {"Err", "Cancelled"})
      /\ (c.cmd = DataSentTcpCmd /\ c.reply.kind = "Ok" /\ c.reply.val # 1) =>
           /\ i = Len(LastCall.cmds)
           /\ op.pos = "idle"
           /\ LastCall.ret = Ret("Err", 0, "CheckDataSent")

\* a flush sent two tranches, each followed by its DataSentTcp, and ended on
\* the status 0 of the second
C14_Witness ==
  /\ hist # <<>>
  /\ LastCall.name = "flush"
  /\ Len(LastCall.cmds) = 4
  /\ LastCall.cmds[3].cmd = SendDataTcpCmd
  /\ LastCall.cmds[4].cmd = DataSentTcpCmd
  /\ LastCall.cmds[4].reply = Reply("Ok", 0)
  /\ LastCall.ret.err = "CheckDataSent"

\* C15: while a flush is in an exchange, the cursor and the buffer are what
\* they were when that flush began, and bytes remain to send; when a write or
\* a flush has returned an error or was dropped, which happens only in an
\* exchange of a flush, they still are; the cursor is 0 after a flush that
\* returned Ok.
C15_FailedFlushKeepsBuffer ==
  /\ op.pos \in {"send_data", "check_data_sent"} =>
       /\ sock.cursor = op.flush0.cursor
       /\ sock.buffer = op.flush0.buffer
       /\ sock.cursor > 0
  /\ (hist # <<>> /\ LastCall.name \in {"write", "flush"}) =>
       /\ LastCall.ret.kind \in {"Err", "Cancelled"} =>
            /\ LastCall.flush0 # NoFlush
            /\ LastCall.cmds # <<>>
            /\ sock.cursor = LastCall.flush0.cursor
            /\ sock.buffer = LastCall.flush0.buffer
            /\ sock.cursor > 0
       /\ (LastCall.name = "flush" /\ LastCall.ret.kind = "Ok") => sock.cursor = 0

\* a write of two buffers and a byte: its first flush drained the buffer, its
\* second failed and left the second buffer of data under a full cursor
C15_Witness ==
  /\ hist # <<>>
  /\ LastCall.name = "write"
  /\ LastCall.ret.kind = "Err"
  /\ LastCall.sends = 2
  /\ sock.cursor = BUFFER_CAPACITY
  /\ sock.buffer = <<Run(Len(hist), BUFFER_CAPACITY, BUFFER_CAPACITY)>>

\* C16: a flush that finds the cursor at 0 issues no command, returns Ok and
\* leaves the cursor and the buffer as they were; so does a flush that
\* directly follows a flush that returned Ok.
C16_FlushIdempotent ==
  hist # <<>> =>
    /\ (LastCall.name = "flush" /\ LastCall.cursor0 = 0) =>
         /\ LastCall.cmds = <<>>
         /\ op.pos = "idle"
         /\ LastCall.ret = Ret("Ok", 0, "none")
         /\ sock.cursor = 0
         /\ sock.buffer = LastCall.buffer0
    /\ (Len(hist) >= 2 /\ LastCall.name = "flush"
          /\ PrevCall.name = "flush" /\ PrevCall.ret.kind = "Ok") =>
         /\ LastCall.cursor0 = 0
         /\ LastCall.cmds = <<>>
         /\ sock.buffer = LastCall.buffer0

\* a flush sent the buffered byte, and the flush after it sent nothing
C16_Witness ==
  /\ Len(hist) >= 2
  /\ PrevCall.name = "flush" /\ PrevCall.ret.kind = "Ok" /\ PrevCall.sends = 1
  /\ LastCall.name = "flush" /\ LastCall.ret.kind = "Ok" /\ LastCall.cmds = <<>>
  /\ sock.buffer # <<Run(0, 0, BUFFER_CAPACITY)>>

\* the last call is a read whose buffer length fits 16 bits
ReadCalled == hist # <<>> /\ LastCall.name = "read" /\ FitsU16(LastCall.n)

C19_ReadAnyLength ==
  (hist # <<>> /\ LastCall.name = "read") =>
    /\ LastCall.ret # Ret("Panic", 0, "unwrap")
    /\ LastCall.ret # NoRet =>
         /\ LastCall.cmds # <<>>
         /\ LastCall.cmds[1].cmd = GetDatabufTcpCmd
         /\ LastCall.cmds[1].n <= U16_MAX

SocketCmds ==
  {StartClientTcpCmd, SendDataTcpCmd, DataSentTcpCmd, GetDatabufTcpCmd, GetClientStateTcpCmd}

\* C20: the socket id of every StartClientTcp, SendDataTcp, DataSentTcp,
\* GetDatabufTcp and GetClientStateTcp is one that an earlier GetSocket reply
\* carried; no command with a socket id is issued outside connect while no
\* Socket exists; and a Socket exists when connect has returned only if its
\* GetSocket succeeded and then its StartClientTcp, for the id of that
\* reply, was answered with status 1, and the Socket holds that id.
C20_SocketIdsFromGetSocket ==
  /\ sock.open => sock.socket \in issued
  /\ hist # <<>> =>
       /\ \A i \in DOMAIN LastCall.cmds :
            LET c == LastCall.cmds[i] IN
            /\ c.cmd \in SocketCmds => c.socket \in issued
            /\ (c.cmd = GetSocketCmd /\ c.reply.kind = "Ok") => c.reply.val \in issued
            /\ (c.cmd \in SocketCmds /\ LastCall.name # "connect") =>
                 (sock.open /\ c.socket = sock.socket)
       /\ LastCall.name = "connect" =>
            (sock.open <=>
               /\ Len(LastCall.cmds) = 2
               /\ LastCall.cmds[1].cmd = GetSocketCmd
               /\ LastCall.cmds[1].reply.kind = "Ok"
               /\ LastCall.cmds[2].cmd = StartClientTcpCmd
               /\ LastCall.cmds[2].socket = LastCall.cmds[1].reply.val
               /\ LastCall.cmds[2].reply = Reply("Ok", 1)
               /\ sock.socket = LastCall.cmds[1].reply.val
               /\ LastCall.ret.kind = "Ok")
  /\ hist = <<>> => (~sock.open /\ issued = {})

\* a connect was refused after its GetSocket, the next connect made the
\* Socket with the second id, and state asked for that id
C20_Witness ==
  /\ sock.open
  /\ Cardinality(issued) = 2
  /\ LastCall.name = "state"
  /\ LastCall.cmds[1].cmd = GetClientStateTcpCmd
  /\ LastCall.cmds[1].socket = 2
  /\ LastCall.ret.kind = "Ok"

\* C21: a connect whose remote address is not IPv4 returns the NotIpv4 error
\* at once: it issues no command, so no GetSocket, it makes no Socket, and
\* no connect to an IPv4 address returns without a GetSocket.
C21_NotIpv4NoExchange ==
  (hist # <<>> /\ LastCall.name = "connect") =>
    /\ LastCall.n = IpVersion(FALSE) =>
         /\ LastCall.cmds = <<>>
         /\ LastCall.ret = Ret("Err", 0, "NotIpv4")
         /\ op.pos = "idle"
         /\ ~sock.open
         /\ Len(hist) = 1 => issued = {}
    /\ LastCall.n = IpVersion(TRUE) =>
         /\ LastCall.cmds # <<>>
         /\ LastCall.cmds[1].cmd = GetSocketCmd
         /\ LastCall.ret.err # "NotIpv4"

\* a connect to an address that is not IPv4 was refused, after an earlier
\* connect had been given a socket id
C21_Witness ==
  /\ Len(hist) >= 2
  /\ LastCall.name = "connect"
  /\ LastCall.n = IpVersion(FALSE)
  /\ LastCall.ret.err = "NotIpv4"
  /\ PrevCall.name = "connect" /\ PrevCall.n = IpVersion(TRUE)
  /\ issued # {}

\* C22: when a Socket has gone away, a StopClientTcp exchange for its socket
\* id, answered with status 1, has released the id.
C22_HandleReleasedOnClose ==
  (hist # <<>> /\ LastCall.name = "drop") =>
    \E i \in DOMAIN LastCall.cmds :
      /\ LastCall.cmds[i].cmd = StopClientTcpCmd
      /\ LastCall.cmds[i].socket = LastCall.n
      /\ LastCall.cmds[i].reply = Reply("Ok", 1)

(***************************************************************************)
(* Properties of the parameter codec.                                      *)
(***************************************************************************)
\* a block of the host whose serialization has run
Serialized == codec.from = "host" /\ codec.phase \notin {"idle", "value"}

\* a slot whose length does not fit the prefix of the mode
Oversize(ps, long) ==
  \E i \in 1..Len(ps) : ParamLen(ps[i]) > (IF long THEN U16_MAX ELSE U8_MAX)

\* C23: every block the host serializes, in either length mode, takes
\* exactly len(long) bytes on the stream, no step of it panics or fails,
\* and parsing the stream into a fresh destination gives back the value
\* and consumes exactly the bytes written
C23_RoundTrip ==
  Serialized =>
    /\ codec.phase \notin {"panic", "err"}
    /\ Len(codec.stream) = ParamsLen(codec.value, codec.long)
    /\ codec.phase = "parsed" =>
         codec.dest = codec.value /\ codec.pos = Len(codec.stream)

\* a tuple of five bytes serialized with one-byte prefixes
FiveBytes ==
  /\ Serialized /\ ~codec.list /\ ~codec.long
  /\ Len(codec.value) = 5
  /\ \A i \in 1..5 : codec.value[i].kind = "u8"

\* C24: a tuple of five bytes (b1..b5) has len(short) = 11, serializes in
\* short mode to [5, 1, b1, 1, b2, 1, b3, 1, b4, 1, b5], and the parse of
\* that stream into (0, 0, 0, 0, 0) yields (b1..b5)
C24_FiveTuple ==
  FiveBytes =>
    LET v == codec.value IN
    /\ ParamsLen(v, FALSE) = 11
    /\ codec.phase \in {"wire", "parsed"}
    /\ codec.stream = <<5, 1, v[1].n, 1, v[2].n, 1, v[3].n, 1, v[4].n, 1, v[5].n>>
    /\ codec.phase = "parsed" => codec.dest = v /\ codec.pos = 11

\* a five-tuple of pairwise distinct bytes came back from the parse
C24_Witness ==
  /\ FiveBytes /\ codec.phase = "parsed"
  /\ \A i, j \in 1..5 : i # j => codec.value[i].n # codec.value[j].n

\* the one slot of a NullTerminated vector, serialized by the host in short
\* mode or sent by a device
NullTerminatedSlot ==
  /\ ~codec.long /\ ~codec.list /\ Len(codec.dest) = 1
  /\ codec.dest[1].kind = "nullterm"

\* C25: NullTerminated around a run v serializes in short mode to |v| + 2
\* bytes, the prefix |v| + 1, the bytes, 0x00; its parse, for every slot
\* length len from 0 to 255 a device sends, reads len - 1 inner bytes and
\* then one byte that must be 0x00, consuming exactly len bytes
C25_NullTerminated ==
  /\ (Serialized /\ NullTerminatedSlot) =>
       LET v == codec.value[1].b IN
       /\ codec.phase # "panic"
       /\ codec.stream = <<1, Len(v) + 1>> \o v \o <<0>>
  /\ (codec.from = "device" /\ NullTerminatedSlot /\ codec.phase \in {"parsed", "panic"}) =>
       LET len == codec.stream[2] IN
       /\ Len(codec.dest[1].b) = len - 1
       /\ codec.pos = 2 + len
       /\ codec.dest[1].b = SubSeq(codec.stream, 3, 1 + len)
       /\ codec.phase = "parsed" <=> codec.stream[2 + len] = 0

(***************************************************************************)
(* The end-to-end exchanges of get_firmware_version and                    *)
(* get_connection_state, under Spec.                                       *)
(***************************************************************************)
\* the exchange of t is over
Done(t) == pc[t] = "done"

\* the header and slot count of the one-slot reply to command c
ReplyHead(c) == <<START_CMD, SetReplyFlag(c), 1>>

\* the reply to GetFwVersion whose slot is the 5 bytes of the version
VersionReply == ReplyHead(GetFwVersionCmd) \o <<Len(Version)>> \o Version

\* the reply whose slot is the version and a closing 0x00
VersionReplyTerminated ==
  ReplyHead(GetFwVersionCmd) \o <<Len(Version) + 1>> \o Version \o <<0, END_CMD>>

\* C26 as stated: get_firmware_version makes the host write exactly
\* E0 37 01 01 00 EE FF FF FF padded with 0xFF to 12 bytes, and on the
\* reply E0 B7 01 05 '1' '.' '2' '.' '3' EE it returns "1.2.3"
C26_FirmwareVersion ==
  \A t \in Tasks :
    call[t] = get_firmware_version =>
      /\ WriteClosed(t) =>
           Flat(wire[t]) = <<START_CMD, GetFwVersionCmd, 1, 1, 0, END_CMD>>
                             \o [i \in 1..6 |-> PAD_BYTE]
      /\ (Done(t) /\ IsPrefix(VersionReply, rx[t])) =>
           /\ result[t].kind = "Ok"
           /\ recv_params[t][1].b = Version

\* C26, amended: the host writes exactly the 8 bytes E0 37 01 01 00 EE FF
\* FF; on the reply E0 B7 01 06 '1' '.' '2' '.' '3' 00 EE the call returns
\* "1.2.3"; on the reply E0 B7 01 05 '1' '.' '2' '.' '3' it panics at the
\* byte '3', read where the closing 0x00 must be
C26_FirmwareVersionTerminated ==
  \A t \in Tasks :
    call[t] = get_firmware_version =>
      /\ WriteClosed(t) =>
           Flat(wire[t]) = <<START_CMD, GetFwVersionCmd, 1, 1, 0, END_CMD, PAD_BYTE, PAD_BYTE>>
      /\ (Done(t) /\ rx[t] = VersionReplyTerminated) =>
           /\ result[t].kind = "Ok"
           /\ recv_params[t][1].b = Version
      /\ (Done(t) /\ IsPrefix(VersionReply, rx[t])) =>
           /\ result[t].kind = "Panic"
           /\ rx[t] = VersionReply

\* a get_firmware_version has returned "1.2.3" after the terminated reply
C26_Witness ==
  \E t \in Tasks :
    /\ call[t] = get_firmware_version /\ Done(t)
    /\ rx[t] = VersionReplyTerminated /\ result[t].kind = "Ok"
    /\ recv_params[t][1].b = Version

\* the reply to GetConnStatus with the status 3
StatusReply == ReplyHead(GetConnStatusCmd) \o <<1, 3, END_CMD>>

\* C27 as stated: get_connection_state makes the host write exactly the 8
\* bytes E0 20 00 EE FF FF FF FF, and on the reply E0 A0 01 01 03 EE the
\* status handed to ConnectionState::try_from is 3 (Connected)
C27_ConnectionState ==
  \A t \in Tasks :
    call[t] = get_connection_state =>
      /\ WriteClosed(t) =>
           Flat(wire[t]) = <<START_CMD, GetConnStatusCmd, 0, END_CMD>>
                             \o [i \in 1..4 |-> PAD_BYTE]
      /\ (Done(t) /\ rx[t] = StatusReply) =>
           result[t].kind = "Ok" /\ recv_params[t][1].n = 3

\* C27, amended: the host writes exactly the 4 bytes E0 20 00 EE, a whole
\* number of 4-byte words, with no padding byte; on the reply
\* E0 A0 01 01 03 EE the status handed to ConnectionState::try_from is 3
C27_ConnectionStateNoPadding ==
  \A t \in Tasks :
    call[t] = get_connection_state =>
      /\ WriteClosed(t) => Flat(wire[t]) = <<START_CMD, GetConnStatusCmd, 0, END_CMD>>
      /\ (Done(t) /\ rx[t] = StatusReply) =>
           result[t].kind = "Ok" /\ recv_params[t][1].n = 3

\* a get_connection_state has returned after the reply with status 3
C27_Witness ==
  \E t \in Tasks :
    /\ call[t] = get_connection_state /\ Done(t)
    /\ rx[t] = StatusReply /\ result[t].kind = "Ok"
    /\ Flat(wire[t]) = <<START_CMD, GetConnStatusCmd, 0, END_CMD>>

(***************************************************************************)
(* request_host_by_name, the first exchange of resolve, under Spec.        *)
(***************************************************************************)
\* the serialization of the request of t panicked
SendPanicked(t) == result[t].kind = "Panic" /\ result[t].tx = "send"

\* C28: request_host_by_name sends one slot with the prefix |hostname| + 1,
\* the hostname bytes and 0x00; a hostname above 255 bytes is refused with
\* an error and nothing is sent; for no hostname does the conversion of the
\* slot length to the one-byte prefix fail
C28_ResolveRequest ==
  \A t \in Tasks :
    call[t].name = "request_host_by_name" =>
      LET h == call[t].send[1].b IN
      /\ ~SendPanicked(t)
      /\ Len(h) > U8_MAX =>
           /\ wire[t] = <<>>
           /\ (Done(t) /\ result[t].kind # "Cancelled") => result[t].kind = "Err"
      /\ (Len(h) <= U8_MAX /\ WriteClosed(t)) =>
           IsPrefix(<<START_CMD, ReqHostByNameCmd, 1, Len(h) + 1>> \o h \o <<0, END_CMD>>,
                    Flat(wire[t]))

(***************************************************************************)
(* No exchange is repeated, under Spec.                                    *)
(***************************************************************************)
\* the transactions t has opened on the bus in its exchange
Transactions(t) == CountOf(trace[t], "cs_low")

\* the exchange of t failed with an error returned to the method
Failed(t) == Done(t) /\ result[t].kind = "Err"

\* one exchange of t: a write transaction, then at most one read
\* transaction, and the frame on the wire at most once
OneExchange(t) ==
  /\ Transactions(t) <= 2
  /\ tx[t] = "send" => Transactions(t) <= 1 /\ rx[t] = <<>>
  /\ Len(Flat(wire[t])) <= PadCursor(Len(ExpectedFrame(call[t])))
  /\ (Failed(t) /\ result[t].tx = "send") => Transactions(t) <= 1 /\ rx[t] = <<>>

\* t does not start over from a failed exchange: the method returns, and
\* the loop of await_connection_state is left
ReturnsFailure(t) == Failed(t) => pc'[t] \in {"done", "idle"}

\* C29: an invocation of a command method performs at most one write and
\* at most one read transaction; a failed exchange is returned without
\* being sent again; an error of a poll of await_connection_state ends the
\* loop at once
C29_NoRetry ==
  /\ [](\A t \in Tasks : OneExchange(t))
  /\ [][\A t \in Tasks : ReturnsFailure(t)]_vars

\* a poll of the connection state failed on the reply after its two
\* transactions
C29_Witness ==
  \E t \in Tasks :
    /\ call[t] = get_connection_state /\ Failed(t)
    /\ result[t].tx = "recv" /\ Transactions(t) = 2
    /\ Len(rx[t]) >= 2

(***************************************************************************)
(* The byte after the parameters of a reply, under Spec.                   *)
(***************************************************************************)
\* the exchange of t ended at the byte read after the parameters
EndedAtEnd(t) == Done(t) /\ result[t].at = "end" /\ result[t].kind \in {"Ok", "Err"}

\* C30: once the parameters of the reply are parsed, exactly one more byte
\* is read; when it is not 0xEE the exchange fails with
\* UnexpectedReplyByte(that byte, 2), and recv_params holds the values
\* parsed from the reply all the same
C30_EndByte ==
  \A t \in Tasks :
    EndedAtEnd(t) =>
      LET w == PrefixWidth(call[t].long_recv)
          n == Len(rx[t])
          last == rx[t][n]
          slot == SubSeq(rx[t], 4 + w, n - 1)
      IN /\ SlotsLen(SubSeq(rx[t], 4, n - 1), rx[t][3], w) = n - 4
         /\ rx[t][3] = 1 /\ Len(recv_params[t]) = 1
         /\ IsPrefix(slot, SerializeParam(recv_params[t][1]))
         /\ result[t].kind = IF last = END_CMD THEN "Ok" ELSE "Err"
         /\ result[t].err = IF last = END_CMD THEN NoErr ELSE UnexpectedReplyByte(last, 2)

\* an exchange failed at the last byte after it had stored a status other
\* than the one the caller passed
C30_Witness ==
  \E t \in Tasks :
    /\ EndedAtEnd(t) /\ result[t].kind = "Err"
    /\ result[t].err = UnexpectedReplyByte(rx[t][Len(rx[t])], 2)
    /\ recv_params[t] # call[t].recv

\* the last call is a write of twice BUFFER_CAPACITY bytes that found the
\* buffer empty and returned Ok
WroteTwoBuffers ==
  /\ hist # <<>>
  /\ LastCall.name = "write" /\ LastCall.cursor0 = 0
  /\ LastCall.n = 2 * BUFFER_CAPACITY
  /\ LastCall.ret.kind = "Ok"

\* the last call is a flush that returned Ok and came after such a write
FlushedSecondBuffer ==
  /\ Len(hist) >= 2
  /\ PrevCall.name = "write" /\ PrevCall.cursor0 = 0
  /\ PrevCall.n = 2 * BUFFER_CAPACITY
  /\ PrevCall.ret.kind = "Ok" /\ PrevCall.all_sent
  /\ LastCall.name = "flush" /\ LastCall.ret.kind = "Ok"

\* C31: a write of 2 x BUFFER_CAPACITY bytes that finds the buffer empty
\* starts with one SendDataTcp that carries the first BUFFER_CAPACITY bytes,
\* followed by a DataSentTcp; when the device reports the tranche sent these
\* are the only commands of the write, and the other BUFFER_CAPACITY bytes
\* stay in the buffer, which the flush called next sends first.  A write that
\* fits the free space of the buffer, filling it exactly included, issues no
\* command.
C31_OneImplicitFlush ==
  /\ WroteTwoBuffers =>
       /\ Len(LastCall.cmds) >= 2
       /\ LastCall.cmds[1].cmd = SendDataTcpCmd
       /\ LastCall.cmds[1].payload = <<Run(Len(hist), 0, BUFFER_CAPACITY)>>
       /\ LastCall.cmds[2].cmd = DataSentTcpCmd
       /\ LastCall.all_sent =>
            /\ Len(LastCall.cmds) = 2
            /\ sock.cursor = BUFFER_CAPACITY
            /\ sock.buffer = <<Run(Len(hist), BUFFER_CAPACITY, BUFFER_CAPACITY)>>
  /\ FlushedSecondBuffer =>
       /\ LastCall.cmds[1].cmd = SendDataTcpCmd
       /\ LastCall.cmds[1].payload =
            <<Run(Len(hist) - 1, BUFFER_CAPACITY, BUFFER_CAPACITY)>>
       /\ sock.cursor = 0
  /\ (/\ hist # <<>>
      /\ LastCall.name = "write"
      /\ LastCall.cursor0 + LastCall.n <= BUFFER_CAPACITY) =>
       LastCall.cmds = <<>>

\* a write of two buffers sent the first BUFFER_CAPACITY bytes in one
\* SendDataTcp and returned with the second BUFFER_CAPACITY bytes buffered
C31_Witness ==
  /\ WroteTwoBuffers /\ LastCall.all_sent
  /\ Len(LastCall.cmds) = 2
  /\ LastCall.sends = 1
  /\ sock.cursor = BUFFER_CAPACITY

\* C32 as written: with a device that answers every command, every flush
\* that was called returns, Ok or Err, after finitely many SendDataTcp
\* exchanges, whatever the replies are, those that report 0 bytes sent with a
\* DataSentTcp status of 1 included.
C32_FlushReturns == (op.name = "flush") ~> (op.name = "none")

\* adjacent runs that continue one another, as one run
RECURSIVE RunsMerge(_)
RunsMerge(rs) ==
  IF Len(rs) < 2 THEN rs
  ELSE LET a == rs[1]
           b == rs[2]
       IN IF a.w = b.w /\ a.from + a.n = b.from
            THEN RunsMerge(<<Run(a.w, a.from, a.n + b.n)>> \o SubSeq(rs, 3, Len(rs)))
            ELSE <<a>> \o RunsMerge(Tail(rs))

\* the SendDataTcp commands of cmds that were answered, and the count each
\* reply carried
Answered(cmds) ==
  SelectSeq(cmds, LAMBDA c : c.cmd = SendDataTcpCmd /\ c.reply.kind = "Ok")

\* the bytes the replies before the i-th command reported sent
RECURSIVE SentBefore(_, _)
SentBefore(cmds, i) ==
  IF i <= 1 THEN 0
  ELSE SentBefore(cmds, i - 1)
         + (IF cmds[i - 1].cmd = SendDataTcpCmd /\ cmds[i - 1].reply.kind = "Ok"
              THEN cmds[i - 1].reply.val ELSE 0)

\* the first k bytes of each tranche, k the count its reply carried, one
\* after the other
RECURSIVE Accepted(_)
Accepted(cmds) ==
  IF cmds = <<>> THEN <<>>
  ELSE RunsTake(Head(cmds).payload, Head(cmds).reply.val) \o Accepted(Tail(cmds))

\* every count reported is at least 1 and at most the length of its tranche
CountsInRange(cmds) ==
  \A i \in DOMAIN cmds :
    (cmds[i].cmd = SendDataTcpCmd /\ cmds[i].reply.kind = "Ok") =>
      (1 <= cmds[i].reply.val /\ cmds[i].reply.val <= cmds[i].n)

\* C33: in a flush, every tranche starts at the buffer offset that is the sum
\* of the counts reported for the tranches before it (flush_cursor + k after
\* a reply of k) and runs to the cursor; when every reported count k
\* satisfies 1 <= k <= to_send and the flush returns Ok, the first k bytes of
\* each tranche, one after the other, are buffer[0..cursor], no byte skipped
\* and none twice, and the cursor is 0.
C33_FlushCursorAdvances ==
  (hist # <<>> /\ LastCall.name = "flush") =>
    /\ \A i \in DOMAIN LastCall.cmds :
         LastCall.cmds[i].cmd = SendDataTcpCmd =>
           LET at == SentBefore(LastCall.cmds, i) IN
           /\ at < LastCall.cursor0
           /\ LastCall.cmds[i].n = LastCall.cursor0 - at
           /\ LastCall.cmds[i].payload =
                RunsSlice(LastCall.buffer0, at, LastCall.cursor0)
    /\ (LastCall.ret.kind = "Ok" /\ CountsInRange(LastCall.cmds)) =>
         /\ RunsMerge(Accepted(Answered(LastCall.cmds)))
              = RunsMerge(RunsTake(LastCall.buffer0, LastCall.cursor0))
         /\ sock.cursor = 0

\* a flush of a full buffer whose first tranche was reported sent but for its
\* last byte sent that byte in a second tranche and returned Ok
C33_Witness ==
  /\ hist # <<>>
  /\ LastCall.name = "flush" /\ LastCall.ret.kind = "Ok"
  /\ LastCall.cursor0 = BUFFER_CAPACITY
  /\ CountsInRange(LastCall.cmds)
  /\ Len(Answered(LastCall.cmds)) = 2
  /\ Answered(LastCall.cmds)[1].reply.val = BUFFER_CAPACITY - 1
  /\ Answered(LastCall.cmds)[2].n = 1

\* the payloads of the SendDataTcp commands of cmds, one after the other
RECURSIVE Payloads(_)
Payloads(cmds) ==
  IF cmds = <<>> THEN <<>>
  ELSE (IF Head(cmds).cmd = SendDataTcpCmd THEN Head(cmds).payload ELSE <<>>)
         \o Payloads(Tail(cmds))

\* the last call is a write or a flush that returned Ok, the device having
\* reported every tranche sent in full
Accepting ==
  /\ hist # <<>>
  /\ LastCall.name \in {"write", "flush"}
  /\ LastCall.ret.kind = "Ok" /\ LastCall.all_sent

\* C34: a write that returns Ok returns buf.len(); and with a device that
\* accepts every tranche in full, the SendDataTcp payloads of a write or a
\* flush that returned Ok, followed by buffer[0..cursor] as the call left it,
\* are buffer[0..cursor] as the call found it followed by the bytes passed to
\* the call (none for a flush).  Every byte of the model carries the call it
\* was passed to and its place there, and each call finds the buffer as the
\* call before it left it, so that over the calls made so far all payloads
\* followed by buffer[0..cursor] are all bytes passed to write, in call order.
C34_StreamKept ==
  /\ (hist # <<>> /\ LastCall.name = "write" /\ LastCall.ret.kind = "Ok") =>
       /\ LastCall.ret.val = LastCall.n
       /\ op.pos = "idle"
  /\ Accepting =>
       RunsMerge(Payloads(LastCall.cmds) \o RunsTake(sock.buffer, sock.cursor))
         = RunsMerge(RunsTake(LastCall.buffer0, LastCall.cursor0)
                       \o CallerBuf(Len(hist), LastCall.n))
  /\ (op.pos = "idle" /\ hist # <<>> /\ sock.open) =>
       \A i \in DOMAIN sock.buffer :
         sock.buffer[i].w <= Len(hist) /\ sock.buffer[i].n > 0

\* a write of two buffers and a byte that found a byte buffered returned its
\* length, having sent two tranches that start with that byte
C34_Witness ==
  /\ Accepting
  /\ LastCall.name = "write"
  /\ LastCall.cursor0 = 1
  /\ LastCall.n = 2 * BUFFER_CAPACITY + 1
  /\ LastCall.ret.val = LastCall.n
  /\ LastCall.sends = 2
  /\ sock.cursor = 2

\* C35: in the write transaction (CAPACITY = 8) and in the read transaction
\* (CAPACITY = 1) the buffer of the transporter has CAPACITY bytes and its
\* cursor is within 0..CAPACITY at every step; the byte that write stores,
\* the bytes the padding loop of flush stores and the byte that read returns
\* lie within the buffer; and every burst of the write transaction has 4 or 8
\* bytes: a length that is not zero, a multiple of 4, at most CAPACITY.
C35_CursorWithinTransporter ==
  \A t \in Tasks :
    /\ trans[t].live =>
         /\ trans[t].cap = (IF tx[t] = "send" THEN SEND_CAPACITY ELSE RECV_CAPACITY)
         /\ Len(trans[t].buffer) = trans[t].cap
         /\ 0 <= trans[t].cursor /\ trans[t].cursor <= trans[t].cap
         /\ (tx[t] = "send" /\ pc[t] = "write") => PadCursor(trans[t].cursor) <= trans[t].cap
         /\ (pc[t] = "read" /\ trans[t].cursor < trans[t].cap) =>
              trans[t].cursor + 1 \in DOMAIN trans[t].buffer
         /\ pc[t] = "xfer" => trans[t].cursor > 0
    /\ \A i \in DOMAIN wire[t] :
         /\ Len(wire[t][i]) > 0
         /\ Len(wire[t][i]) % PAD_MULTIPLE = 0
         /\ Len(wire[t][i]) <= SEND_CAPACITY

\* a write transaction sent a burst of 8 bytes and a closing burst of the end
\* byte and three 0xFF bytes, and the read transaction after it has consumed
\* the one byte of its buffer
C35_Witness ==
  \E t \in Tasks :
    /\ tx[t] = "recv" /\ pc[t] = "read"
    /\ trans[t].live /\ trans[t].cursor = RECV_CAPACITY
    /\ Len(wire[t]) = 2
    /\ Len(wire[t][1]) = SEND_CAPACITY
    /\ wire[t][2] = <<END_CMD, PAD_BYTE, PAD_BYTE, PAD_BYTE>>

\* t is in the closure of its read transaction, between two awaits
Reading(t) == tx[t] = "recv" /\ pc[t] = "read" /\ trans[t].live

\* the buffer of the read transaction of t holds the bytes the latest refill
\* received, and the first two bytes read are the first two received
FreshBuffer(t) ==
  /\ Len(rx[t]) >= trans[t].cap
  /\ trans[t].buffer = SubSeq(rx[t], Len(rx[t]) - trans[t].cap + 1, Len(rx[t]))
  /\ IsPrefix(first[t], rx[t])
  /\ Len(first[t]) = Min(2, Len(rx[t]) - (trans[t].cap - trans[t].cursor))

\* a step of t that refills: it comes first in the transaction or after every
\* byte received was read, and it receives CAPACITY bytes behind those
Refills(t) ==
  (rx'[t] # rx[t] /\ rx'[t] # <<>>) =>
    /\ rx[t] = <<>> \/ trans[t].cursor = trans[t].cap
    /\ Len(rx'[t]) = Len(rx[t]) + trans[t].cap
    /\ IsPrefix(rx[t], rx'[t])
    /\ trans'[t].cursor = 0

\* a step of t that reads a byte: the byte is the one at the cursor, which
\* moves past it or the exchange ends
Reads(t) ==
  (Reading(t) /\ trans[t].cursor < trans[t].cap /\ pc'[t] # pc[t]) =>
    /\ pc'[t] = "done"
    /\ rx'[t] = rx[t]
Passes(t) ==
  (Reading(t) /\ Reading(t)' /\ trans'[t] # trans[t]) =>
    /\ trans'[t].cursor = trans[t].cursor + 1
    /\ trans'[t].buffer = trans[t].buffer
    /\ rx'[t] = rx[t]

\* C36: in the closure of a read transaction the buffer of the transporter
\* holds what the latest refill of that transaction received, never the
\* zeros it was created with; a refill happens first and then only when
\* every byte received was read, and a read moves the cursor by one: the bytes
\* reach the parser in the order received, none skipped and none twice.
C36_ReadsWhatRefillReceived ==
  /\ [](\A t \in Tasks : Reading(t) => FreshBuffer(t))
  /\ [][\A t \in Tasks : Refills(t) /\ Reads(t) /\ Passes(t)]_vars

\* the read transaction of a call has read five bytes, each from its own
\* refill, the third of which is not 0
C36_Witness ==
  \E t \in Tasks :
    /\ Reading(t)
    /\ Len(rx[t]) = 5
    /\ trans[t].cursor = RECV_CAPACITY
    /\ rx[t][3] # 0

\* the read transaction of t is over, and the two header bytes of the reply
\* passed their checks
ParsedHeader(t) ==
  /\ Done(t) /\ result[t].tx = "recv"
  /\ Len(rx[t]) >= 3
  /\ CheckHeader(SubSeq(rx[t], 1, 2), call[t].cmd) = NoErr

\* the one slot of the reply to the call of t is to be parsed into a scalar,
\* and the reply announces one slot and gives its length
ScalarLength(t) ==
  /\ ParsedHeader(t)
  /\ Len(call[t].recv) = 1
  /\ call[t].recv[1].kind \in {"u8", "u16le", "u16be", "u32le", "u32be"}
  /\ rx[t][3] = 1
  /\ Len(rx[t]) >= 3 + PrefixWidth(call[t].long_recv)

\* the length the reply gives for its first slot
FirstLength(t) == BEValue(SubSeq(rx[t], 4, 3 + PrefixWidth(call[t].long_recv)))

\* C37: the parse of the reply reads the count byte first; when the byte is
\* not the arity of the tuple to parse into, the exchange ends there in a
\* panic, no error value, with no byte read after the count and nothing
\* stored; and when the count is right and the length given for a scalar
\* slot is not the width of the scalar, the exchange ends in a panic at the
\* last byte of that length, with no payload byte read and nothing stored.
\* Nothing else ends an exchange at the count byte or, for a scalar slot,
\* at its length.
C37_ParseAsserts ==
  \A t \in Tasks :
    /\ (ParsedHeader(t) /\ rx[t][3] # Len(call[t].recv)) =>
         /\ result[t].kind = "Panic" /\ result[t].err = NoErr
         /\ result[t].at = "count"
         /\ Len(rx[t]) = 3
         /\ recv_params[t] = call[t].recv
    /\ (Done(t) /\ result[t].at = "count") =>
         /\ result[t].kind = "Panic"
         /\ rx[t][3] # Len(call[t].recv)
    /\ (ScalarLength(t) /\ FirstLength(t) # ScalarWidth(call[t].recv[1].kind)) =>
         /\ result[t].kind = "Panic" /\ result[t].err = NoErr
         /\ result[t].at = "len"
         /\ Len(rx[t]) = 3 + PrefixWidth(call[t].long_recv)
         /\ recv_params[t] = call[t].recv
    /\ (ScalarLength(t) /\ result[t].at = "len") =>
         /\ result[t].kind = "Panic"
         /\ FirstLength(t) # ScalarWidth(call[t].recv[1].kind)

\* a reply to send_data gave the length 1 for the 2-byte count of bytes sent
\* and the exchange panicked before any payload byte was read
LengthPanicked ==
  \E t \in Tasks :
    /\ ScalarLength(t)
    /\ call[t].cmd = SendDataTcpCmd
    /\ FirstLength(t) = 1
    /\ result[t].kind = "Panic" /\ result[t].at = "len"

\* a reply to get_socket announced two slots and the exchange panicked at
\* the count byte
C37_Witness ==
  \E t \in Tasks :
    /\ ParsedHeader(t)
    /\ call[t].name = "get_socket"
    /\ rx[t] = <<START_CMD, SetReplyFlag(GetSocketCmd), 2>>
    /\ result[t].kind = "Panic" /\ result[t].at = "count"

(***************************************************************************)
(* await_connection_state, under AwaitSpec.                                *)
(***************************************************************************)
\* C38 as written: await_connection_state polls at least once and ends for
\* every timeout and interval, interval = 0 and sums beyond 32 bits
\* included: with Ok as soon as a poll equals the target, and otherwise with
\* ConnectionFailure carrying the last status polled, once the accumulated
\* time exceeds timeout.
C38_AwaitTerminates ==
  /\ [](poll.pc = "done" =>
          /\ poll.ret.kind = "Ok" => (poll.polled /\ poll.actual = poll.target)
          /\ poll.ret.err = "ConnectionFailure" =>
               /\ poll.polled
               /\ poll.ret.val = poll.actual /\ poll.actual # poll.target
               /\ U32Gt(poll.total_time, poll.timeout))
  /\ <>(poll.pc = "done")

\* what does hold of it: a call that returns has polled; Ok is returned when
\* the latest poll equals the target, and ConnectionFailure carries the
\* latest status polled, which differs from the target, the accumulated time
\* being above timeout
AwaitReturns ==
  poll.pc = "done" =>
    /\ poll.ret.kind = "Ok" => (poll.polled /\ poll.actual = poll.target)
    /\ poll.ret.err = "ConnectionFailure" =>
         /\ poll.polled
         /\ poll.ret.val = poll.actual /\ poll.actual # poll.target
         /\ U32Gt(poll.total_time, poll.timeout)

\* a call with interval = 0 is back at its poll with no time accumulated
AwaitStalls ==
  /\ poll.pc = "poll" /\ poll.polled
  /\ poll.interval = U32(0, 0)
  /\ poll.total_time = U32(0, 0)

\* the sum of total_time and interval left 32 bits: a panic in a build with
\* overflow checks, and a total_time that fell back to 0 in one without
AwaitOverflows ==
  \/ poll.ret.kind = "Panic"
  \/ /\ poll.build = "release" /\ poll.pc = "poll" /\ poll.polled
     /\ poll.interval # U32(0, 0) /\ poll.total_time = U32(0, 0)

(***************************************************************************)
(* SpiTransport::start and the first reset, under StartSpec.               *)
(***************************************************************************)
\* what a reset that did all its steps has done, in order
ResetSequence ==
  <<Driven("low"), Delayed(RESET_ASSERTED_MS), Driven("high"), Delayed(RESET_RELEASED_MS)>>

\* a task has called a command method, or is in an exchange, or has ended one
Commanded(t) == pc[t] # "idle" \/ calls[t] > 0 \/ trace[t] # <<>> \/ wire[t] # <<>>

\* C39: reset drives the reset line to its asserted level (low), waits
\* 100 ms, releases the line (high) and waits 750 ms, in that order: what it
\* has done is at every moment a prefix of that sequence; start has returned
\* a transport only when the whole sequence is done and the line is released;
\* and no task has begun a command exchange while start has not returned.
C39_ResetBeforeExchanges ==
  /\ IsPrefix(boot.events, ResetSequence)
  /\ boot.pc = "started" => (boot.events = ResetSequence /\ boot.reset = "high")
  /\ boot.pc = "delay_100" => boot.reset = "low"
  /\ \A t \in Tasks :
       Commanded(t) => (boot.pc = "started" /\ boot.events = ResetSequence)

\* start was called with the reset line low, the reset ran to its end, and
\* the exchange of a command has reached its read transaction
C39_Witness ==
  /\ boot.pc = "started" /\ boot.events = ResetSequence
  /\ \E t \in Tasks : pc[t] = "read" /\ Len(rx[t]) = 2 /\ Len(wire[t]) >= 1

=============================================================================
